---- MODULE Spec2Model ----
(***************************************************************************)
(* A model of the mylang pipeline: run() drives the scanner, the parser,   *)
(* the resolver and the tree-walking interpreter over one persistent       *)
(* Interpreter (the REPL's context).  The resolver and the interpreter are *)
(* translated handler by handler as recursive operators over the AST; the  *)
(* driver run() / run_prompt() is the state machine.                       *)
(*                                                                         *)
(* The environment is the scope stack of environment.rs (EnvironmentStack),*)
(* values and callables are those of callable.rs, the statement and        *)
(* expression handlers are those of interpreter.rs, the resolver is        *)
(* resolver.rs and the resolution map is keyed by expression identity      *)
(* (expr.rs).                                                              *)
(***************************************************************************)
EXTENDS Integers, Sequences, FiniteSets, TLC

VARIABLES
    context,     \* the Interpreter: [environment, locals, output, slept]
    pc,          \* position of the driver: "prompt", "lex", "parse", "resolve",
                 \* "check", "interpret", "panicked"
    input,       \* index of the source being run (0 at the first prompt)
    source,      \* the characters given to Scanner::new when the run starts from
                 \* a text (input is 0 then)
    scanner,     \* the Scanner of the current run, as scan_tokens() left it
    tokens_ok,   \* whether the scanner has handed its tokens to the parser
    tokens,      \* the token list given to Parser::new when the run starts from
                 \* tokens; <<>> when it starts from a source of Sources, whose
                 \* statements are written out
    statements,  \* the statement list returned by the parser
    parser,      \* the Parser of the current run, as parse() left it, with the
                 \* cursor before and after every turn of its loops
    resolver,    \* the Resolver of the current run, as resolve() left it
    issues,      \* the merged TranslationErrors batch of the current run
    result,      \* what the last run() returned
    before,      \* the Interpreter as it was when the current run() began
    log,         \* events of the last interpret(): an observation, not state
    runs,        \* number of run() calls made so far
    index        \* position of the loop of interpret() in statements

vars == <<context, pc, input, source, scanner, tokens_ok, tokens, statements, parser,
          resolver, issues, result, before, log, runs, index>>

\* Number of lines read by run_prompt before end of input.
MaxRuns == 2

-----------------------------------------------------------------------------
(* Literals and values                                                     *)

NumberV(n) == [k |-> "Number", v |-> n]
StringV(s) == [k |-> "String", v |-> s]
BoolV(b) == [k |-> "Bool", v |-> b]
NullV == [k |-> "Null", v |-> "null"]

\* The f64 values that are no integers: "inf", "-inf" and "NaN"
NonFinite(name) == [k |-> "Number", v |-> 0, nonfinite |-> name]

IsNonFinite(lit) == "nonfinite" \in DOMAIN lit

\* Value::Literal(_) as opposed to Value::Function(_)
IsLiteral(value) == value.k \in {"Number", "String", "Bool", "Null"}

Literal_is_truthy(lit) ==
    CASE lit.k = "Bool" -> lit.v
      [] lit.k = "Null" -> FALSE
      [] OTHER -> TRUE

Literal_as_str(lit) ==
    CASE lit.k = "String" -> lit.v
      [] lit.k = "Number" -> (IF IsNonFinite(lit) THEN lit.nonfinite ELSE ToString(lit.v))
      [] lit.k = "Bool" -> (IF lit.v THEN "true" ELSE "false")
      [] OTHER -> "null"

\* PartialEq derived on Literal: same variant and same payload
Literal_eq(a, b) ==
    /\ a.k = b.k
    /\ a.v = b.v
    /\ IsNonFinite(a) = IsNonFinite(b)
    /\ IsNonFinite(a) => (a.nonfinite = b.nonfinite /\ a.nonfinite # "NaN")

Value_is_truthy(value) ==
    IF IsLiteral(value) THEN Literal_is_truthy(value) ELSE FALSE

Callable_as_str(func) ==
    CASE func.kind = "Function" -> "<fn " \o func.name \o ">"
      [] func.kind = "LcClock" -> "<fn clock>"
      [] func.kind = "LcTypeof" -> "<fn typeof>"
      [] OTHER -> "<fn sleep>"

Callable_arity(func) ==
    CASE func.kind = "Function" -> Len(func.params)
      [] func.kind = "LcClock" -> 0
      [] OTHER -> 1

Value_as_str(value) ==
    IF IsLiteral(value) THEN Literal_as_str(value) ELSE Callable_as_str(value.v)

\* Token { kind, lexeme, span }: a span is modelled by the identity of the
\* expression or statement the token belongs to, Span::new(0) by 0; an
\* operator keeps no lexeme
Token(t_type, lexeme, span) == [t_type |-> t_type, lexeme |-> lexeme, span |-> span]

NativeFn(kind) ==
    [k |-> "Function",
     v |-> [kind |-> kind, name |-> "", span |-> 0, params |-> <<>>, body |-> <<>>,
            closure |-> <<>>]]

\* Function::new: the closure is a copy of the environment it is given
Function_new(name, params, body, closure) ==
    [k |-> "Function",
     v |-> [kind |-> "Function", name |-> name.lexeme, span |-> name.span,
            params |-> params, body |-> body, closure |-> closure]]

-----------------------------------------------------------------------------
(* Environment: one scope, a map from identifier text to Value             *)

Environment_new == [n \in {} |-> NullV]

Environment_define(env, name, value) == (name :> value) @@ env

Environment_contains(env, name) == name \in DOMAIN env

UndefinedVariable(name) == "Undefined variable '" \o name \o "'"

\* Environment::get with a default: a name the scope does not bind reads Null
Environment_get_or_null(env, name) ==
    IF name \in DOMAIN env
    THEN [ok |-> TRUE, value |-> env[name], message |-> ""]
    ELSE [ok |-> TRUE, value |-> NullV, message |-> ""]

\* Result<Value, SpannedError>
Environment_get(env, name) ==
    IF name \in DOMAIN env
    THEN [ok |-> TRUE, value |-> env[name], message |-> ""]
    ELSE [ok |-> FALSE, value |-> NullV, message |-> UndefinedVariable(name)]

\* Result<(), SpannedError> together with the environment after the call
Environment_assign(env, name, value) ==
    IF name \in DOMAIN env
    THEN [ok |-> TRUE, env |-> (name :> value) @@ env, message |-> ""]
    ELSE [ok |-> FALSE, env |-> env, message |-> UndefinedVariable(name)]

define_builtins(env) ==
    Environment_define(
        Environment_define(
            Environment_define(env, "clock", NativeFn("LcClock")),
            "typeof", NativeFn("LcTypeof")),
        "sleep", NativeFn("LcSleep"))

-----------------------------------------------------------------------------
(* EnvironmentStack: stack[1] is the global scope, the last is innermost   *)

EnvironmentStack_new(globals) == <<globals>>

EnvironmentStack_top(stack) == stack[Len(stack)]

EnvironmentStack_begin_scope(stack, environment) == Append(stack, environment)

\* end_scope that removes the first scope of the stack, the global scope
EnvironmentStack_end_scope_front(stack) ==
    IF Len(stack) = 0 THEN stack ELSE SubSeq(stack, 2, Len(stack))

\* Vec::pop: removes the last scope, whichever it is
EnvironmentStack_end_scope(stack) ==
    IF Len(stack) = 0 THEN stack ELSE SubSeq(stack, 1, Len(stack) - 1)

\* define that rebinds the name in the innermost scope that already binds it
\* and only otherwise in the top scope
EnvironmentStack_define_rebinding(stack, name, value) ==
    LET hits == {i \in 1..Len(stack) : name \in DOMAIN stack[i]}
        at == IF hits = {} THEN Len(stack) ELSE CHOOSE i \in hits : \A j \in hits : j <= i
    IN [stack EXCEPT ![at] = Environment_define(@, name, value)]

\* self.top().define(name, value): the binding goes to the innermost scope
EnvironmentStack_define(stack, name, value) ==
    [stack EXCEPT ![Len(stack)] = Environment_define(@, name, value)]

\* Innermost scope that binds the name, walking the whole runtime stack
EnvironmentStack_get(stack, name) ==
    LET hits == {i \in 1..Len(stack) : name \in DOMAIN stack[i]} IN
    IF hits = {}
    THEN [ok |-> FALSE, panic |-> FALSE, value |-> NullV, message |-> UndefinedVariable(name)]
    ELSE [ok |-> TRUE, panic |-> FALSE,
          value |-> stack[CHOOSE i \in hits : \A j \in hits : j <= i][name], message |-> ""]

\* stack.get(len - 1 - depth).unwrap(): out of range is a panic
EnvironmentStack_get_at(stack, name, depth) ==
    IF depth >= Len(stack)
    THEN [ok |-> FALSE, panic |-> TRUE, value |-> NullV, message |-> "panic: scope index out of range"]
    ELSE LET r == Environment_get(stack[Len(stack) - depth], name) IN
         [ok |-> r.ok, panic |-> FALSE, value |-> r.value, message |-> r.message]

\* self.stack[0].get(ident): the global scope as it is when the call is made
EnvironmentStack_global_get(stack, name) ==
    LET r == Environment_get(stack[1], name) IN
    [ok |-> r.ok, panic |-> FALSE, value |-> r.value, message |-> r.message]

EnvironmentStack_assign_at(stack, name, value, depth) ==
    IF depth >= Len(stack)
    THEN [ok |-> FALSE, panic |-> TRUE, stack |-> stack, message |-> "panic: scope index out of range"]
    ELSE LET r == Environment_assign(stack[Len(stack) - depth], name, value) IN
         [ok |-> r.ok, panic |-> FALSE,
          stack |-> [stack EXCEPT ![Len(stack) - depth] = r.env], message |-> r.message]

EnvironmentStack_global_assign(stack, name, value) ==
    LET r == Environment_assign(stack[1], name, value) IN
    [ok |-> r.ok, panic |-> FALSE, stack |-> [stack EXCEPT ![1] = r.env], message |-> r.message]

-----------------------------------------------------------------------------
(* AST.  id is the expression identity handed out by Expr::new; sid names  *)
(* a statement in the event log.                                           *)

Expr_Literal(id, value) == [kind |-> "Literal", id |-> id, value |-> value]
Expr_Variable(id, name) == [kind |-> "Variable", id |-> id, name |-> name]
Expr_Assign(id, name, value) == [kind |-> "Assign", id |-> id, name |-> name, value |-> value]
Expr_Binary(id, left, op, right) ==
    [kind |-> "Binary", id |-> id, left |-> left, op |-> op, right |-> right]
Expr_Call(id, callee, args) == [kind |-> "Call", id |-> id, callee |-> callee, args |-> args]
Expr_Grouping(id, ex) == [kind |-> "Grouping", id |-> id, ex |-> ex]
Expr_Logical(id, left, op, right) ==
    [kind |-> "Logical", id |-> id, left |-> left, op |-> op, right |-> right]
Expr_Unary(id, op, ex) == [kind |-> "Unary", id |-> id, op |-> op, ex |-> ex]

Stmt_Block(sid, stmts) == [kind |-> "Block", sid |-> sid, statements |-> stmts]
Stmt_Expression(sid, ex) == [kind |-> "Expression", sid |-> sid, ex |-> ex]
Stmt_Function(sid, name, params, body) ==
    [kind |-> "Function", sid |-> sid, name |-> name, params |-> params, body |-> body]
\* st_else is <<>> (None) or <<stmt>> (Some)
Stmt_If(sid, condition, st_then, st_else) ==
    [kind |-> "If", sid |-> sid, condition |-> condition, st_then |-> st_then,
     st_else |-> st_else]
Stmt_Print(sid, ex) == [kind |-> "Print", sid |-> sid, ex |-> ex]
Stmt_Return(sid, ex) == [kind |-> "Return", sid |-> sid, ex |-> ex]
Stmt_Let(sid, name, initializer) ==
    [kind |-> "Let", sid |-> sid, name |-> name, initializer |-> initializer]
Stmt_While(sid, condition, body) ==
    [kind |-> "While", sid |-> sid, condition |-> condition, body |-> body]

-----------------------------------------------------------------------------
(* Resolver.  r is the Resolver: [scopes, current_function, errors, locals]*)
(* where locals is the interpreter's resolution map the resolver writes    *)
(* through Interpreter::resolve.  A handler returns [r, err]: the resolver *)
(* after it and <<>> for Ok(()) or <<message>> for Err.                    *)

Interpreter_resolve(locals, id, depth) == (id :> depth) @@ locals

Resolver_new(locals) ==
    [scopes |-> <<>>, current_function |-> "None", errors |-> <<>>, locals |-> locals]

Resolver_report_error(r, e) == [r EXCEPT !.errors = Append(@, e)]

Resolver_begin_scope(r) == [r EXCEPT !.scopes = Append(@, [n \in {} |-> FALSE])]

Resolver_end_scope(r) ==
    [r EXCEPT !.scopes = IF Len(@) = 0 THEN @ ELSE SubSeq(@, 1, Len(@) - 1)]

\* declare that overwrites the entry of a name the scope already holds
Resolver_declare_shadowing(r, name) ==
    IF Len(r.scopes) = 0 THEN [r |-> r, err |-> <<>>]
    ELSE [r |-> [r EXCEPT !.scopes[Len(r.scopes)] = (name :> FALSE) @@ @], err |-> <<>>]

Resolver_declare(r, name) ==
    IF Len(r.scopes) = 0 THEN [r |-> r, err |-> <<>>]
    ELSE IF name \in DOMAIN r.scopes[Len(r.scopes)]
    THEN [r |-> r, err |-> <<"Already a variable with this name in this scope.">>]
    ELSE [r |-> [r EXCEPT !.scopes[Len(r.scopes)] = (name :> FALSE) @@ @], err |-> <<>>]

Resolver_define(r, name) ==
    IF Len(r.scopes) = 0 THEN r
    ELSE [r EXCEPT !.scopes[Len(r.scopes)] = (name :> TRUE) @@ @]

\* The innermost resolver scope that holds the name gives the depth
Resolver_resolve_local(r, ex, name) ==
    LET hits == {i \in 1..Len(r.scopes) : name \in DOMAIN r.scopes[i]} IN
    IF hits = {} THEN r
    ELSE LET i == CHOOSE h \in hits : \A j \in hits : j <= h IN
         [r EXCEPT !.locals = Interpreter_resolve(@, ex.id, Len(r.scopes) - i)]

\* visit_var_expr without the look at the innermost scope's entry
Resolver_visit_var_expr_unchecked(r, ex) ==
    [r |-> Resolver_resolve_local(r, ex, ex.name), err |-> <<>>]

Resolver_visit_var_expr(r, ex) ==
    LET n == Len(r.scopes)
        r1 == IF n > 0 /\ ex.name \in DOMAIN r.scopes[n] /\ ~r.scopes[n][ex.name]
              THEN Resolver_report_error(r,
                       "Can't read local variable in its own initializer.")
              ELSE r
    IN [r |-> Resolver_resolve_local(r1, ex, ex.name), err |-> <<>>]

RECURSIVE Resolver_resolve_expr(_, _)
RECURSIVE Resolver_resolve_exprs(_, _, _)
RECURSIVE Resolver_resolve_stmt(_, _)
RECURSIVE Resolver_resolve_statements_from(_, _, _)
RECURSIVE Resolver_declare_params(_, _, _)

\* for arg in args { self.resolve_expr(arg)?; }
Resolver_resolve_exprs(r, args, i) ==
    IF i > Len(args) THEN [r |-> r, err |-> <<>>]
    ELSE LET a == Resolver_resolve_expr(r, args[i]) IN
         IF a.err # <<>> THEN a ELSE Resolver_resolve_exprs(a.r, args, i + 1)

Resolver_visit_assign_expr(r, ex) ==
    LET a == Resolver_resolve_expr(r, ex.value) IN
    IF a.err # <<>> THEN a
    ELSE [r |-> Resolver_resolve_local(a.r, ex, ex.name), err |-> <<>>]

Resolver_visit_binary_expr(r, left, right) ==
    LET a == Resolver_resolve_expr(r, left) IN
    IF a.err # <<>> THEN a ELSE Resolver_resolve_expr(a.r, right)

Resolver_visit_call_expr(r, callee, args) ==
    LET a == Resolver_resolve_expr(r, callee) IN
    IF a.err # <<>> THEN a ELSE Resolver_resolve_exprs(a.r, args, 1)

Resolver_resolve_expr(r, ex) ==
    CASE ex.kind = "Assign" -> Resolver_visit_assign_expr(r, ex)
      [] ex.kind = "Binary" -> Resolver_visit_binary_expr(r, ex.left, ex.right)
      [] ex.kind = "Call" -> Resolver_visit_call_expr(r, ex.callee, ex.args)
      [] ex.kind = "Grouping" -> Resolver_resolve_expr(r, ex.ex)
      [] ex.kind = "Literal" -> [r |-> r, err |-> <<>>]
      [] ex.kind = "Logical" -> Resolver_visit_binary_expr(r, ex.left, ex.right)
      [] ex.kind = "Unary" -> Resolver_resolve_expr(r, ex.ex)
      [] ex.kind = "Variable" -> Resolver_visit_var_expr(r, ex)

\* Every statement is resolved; an Err is reported and the walk goes on
Resolver_resolve_statements_from(r, stmts, i) ==
    IF i > Len(stmts) THEN [r |-> r, err |-> <<>>]
    ELSE LET a == Resolver_resolve_stmt(r, stmts[i]) IN
         IF a.err # <<>>
         THEN Resolver_resolve_statements_from(Resolver_report_error(a.r, a.err[1]),
                                               stmts, i + 1)
         ELSE Resolver_resolve_statements_from(a.r, stmts, i + 1)

Resolver_resolve_statements(r, stmts) == Resolver_resolve_statements_from(r, stmts, 1)

Resolver_visit_block_stmt(r, stmts) ==
    LET a == Resolver_resolve_statements(Resolver_begin_scope(r), stmts) IN
    IF a.err # <<>> THEN a ELSE [r |-> Resolver_end_scope(a.r), err |-> <<>>]

Resolver_visit_if_stmt(r, st) ==
    LET a == Resolver_resolve_expr(r, st.condition) IN
    IF a.err # <<>> THEN a
    ELSE LET b == Resolver_resolve_stmt(a.r, st.st_then) IN
         IF b.err # <<>> THEN b
         ELSE IF st.st_else # <<>> THEN Resolver_resolve_stmt(b.r, st.st_else[1])
         ELSE b

Resolver_visit_return_stmt(r, ex) ==
    IF r.current_function = "None"
    THEN [r |-> r, err |-> <<"Can't return from top-level code">>]
    ELSE Resolver_resolve_expr(r, ex)

\* for param in params { self.declare(param)?; self.define(param); }
Resolver_declare_params(r, params, i) ==
    IF i > Len(params) THEN [r |-> r, err |-> <<>>]
    ELSE LET a == Resolver_declare(r, params[i]) IN
         IF a.err # <<>> THEN a
         ELSE Resolver_declare_params(Resolver_define(a.r, params[i]), params, i + 1)

Resolver_visit_function_stmt(r, st, kind) ==
    LET a == Resolver_declare(r, st.name) IN
    IF a.err # <<>> THEN a
    ELSE LET enclosing == r.current_function
             r1 == Resolver_begin_scope(
                       [Resolver_define(a.r, st.name) EXCEPT !.current_function = kind])
             b == Resolver_declare_params(r1, st.params, 1)
         IN IF b.err # <<>> THEN b
            ELSE LET c == Resolver_resolve_statements(b.r, st.body) IN
                 IF c.err # <<>> THEN c
                 ELSE [r |-> [Resolver_end_scope(c.r) EXCEPT !.current_function = enclosing],
                       err |-> <<>>]

Resolver_visit_let_stmt(r, st) ==
    LET a == Resolver_declare(r, st.name) IN
    IF a.err # <<>> THEN a
    ELSE LET b == Resolver_resolve_expr(a.r, st.initializer) IN
         IF b.err # <<>> THEN b
         ELSE [r |-> Resolver_define(b.r, st.name), err |-> <<>>]

Resolver_visit_while_stmt(r, st) ==
    LET a == Resolver_resolve_expr(r, st.condition) IN
    IF a.err # <<>> THEN a ELSE Resolver_resolve_stmt(a.r, st.body)

Resolver_resolve_stmt(r, st) ==
    CASE st.kind = "Block" -> Resolver_visit_block_stmt(r, st.statements)
      [] st.kind = "Expression" -> Resolver_resolve_expr(r, st.ex)
      [] st.kind = "Function" -> Resolver_visit_function_stmt(r, st, "Function")
      [] st.kind = "If" -> Resolver_visit_if_stmt(r, st)
      [] st.kind = "Print" -> Resolver_resolve_expr(r, st.ex)
      [] st.kind = "Return" -> Resolver_visit_return_stmt(r, st.ex)
      [] st.kind = "Let" -> Resolver_visit_let_stmt(r, st)
      [] st.kind = "While" -> Resolver_visit_while_stmt(r, st)

\* Resolver::resolve: the resolver after the walk; its errors are the batch
Resolver_resolve(r, stmts) == Resolver_resolve_statements(r, stmts).r

-----------------------------------------------------------------------------
(* Interpreter.  it is the Interpreter while it runs: environment (the     *)
(* EnvironmentStack), locals (the resolution map), output (the lines       *)
(* written to the sink), slept (the durations LcSleep has slept), and the  *)
(* observation fields log, lvl (call nesting) and now (the system clock).  *)
(* A handler returns Res(it, k, value, message): k is "Ok", or "Error"     *)
(* (Throw::Error), "Return" (Throw::Return), or "Panic" (the process       *)
(* aborts; no handler catches it).                                         *)

Res(it, k, value, message) == [it |-> it, k |-> k, value |-> value, message |-> message]

Note(it, e) == [it EXCEPT !.log = Append(@, e)]

\* Err((token, message).into()): the error carries the span of the token; it
\* is written to the log with the output and the global scope as they are
\* when it is raised
Throw_Error(it, token, message) ==
    Res(Note(it, [ev |-> "error", message |-> message, span |-> token.span,
                  lvl |-> it.lvl,
                  output |-> it.output, globals |-> it.environment[1]]),
        "Error", NullV, message)

Domains(stack) == [i \in 1..Len(stack) |-> DOMAIN stack[i]]

\* The bindings <<scope, name>> of the scopes of old that new does not hold with
\* the same value, and the ones new holds in those scopes that old does not
Changed(old, new) ==
    {b \in UNION {{<<s, n>> : n \in DOMAIN old[s] \cup
                                   (IF s <= Len(new) THEN DOMAIN new[s] ELSE {})} :
                  s \in 1..Len(old)} :
        \/ b[1] > Len(new)
        \/ b[2] \notin DOMAIN old[b[1]]
        \/ b[2] \notin DOMAIN new[b[1]]
        \/ old[b[1]][b[2]] # new[b[1]][b[2]]}

\* look_up_variable by name alone: the innermost scope of the running stack
\* that binds the name, whatever the resolver recorded
Interpreter_look_up_variable_by_name(it, ex) ==
    LET r == EnvironmentStack_get(it.environment, ex.name)
        k == IF r.ok THEN "Ok" ELSE "Error"
        it1 == Note(it, [ev |-> "var", op |-> "get", id |-> ex.id, name |-> ex.name,
                         has_depth |-> ex.id \in DOMAIN it.locals,
                         global_bound |-> ex.name \in DOMAIN it.environment[1],
                         global_value |-> Environment_get(it.environment[1], ex.name).value,
                         value |-> r.value,
                         k |-> k, message |-> r.message])
    IN IF k = "Error" THEN Throw_Error(it1, Token("Identifier", ex.name, ex.id), r.message)
       ELSE Res(it1, k, r.value, r.message)

Interpreter_look_up_variable(it, ex) ==
    LET r == IF ex.id \in DOMAIN it.locals
             THEN EnvironmentStack_get_at(it.environment, ex.name, it.locals[ex.id])
             ELSE EnvironmentStack_global_get(it.environment, ex.name)
        k == IF r.ok THEN "Ok" ELSE IF r.panic THEN "Panic" ELSE "Error"
        it1 == Note(it, [ev |-> "var", op |-> "get", id |-> ex.id, name |-> ex.name,
                         has_depth |-> ex.id \in DOMAIN it.locals,
                         global_bound |-> ex.name \in DOMAIN it.environment[1],
                         global_value |-> Environment_get(it.environment[1], ex.name).value,
                         value |-> r.value,
                         k |-> k, message |-> r.message])
    IN IF k = "Error" THEN Throw_Error(it1, Token("Identifier", ex.name, ex.id), r.message)
       ELSE Res(it1, k, r.value, r.message)

Interpreter_visit_var_expr(it, ex) == Interpreter_look_up_variable(it, ex)

Interpreter_get_number_ops(left, right) ==
    IF left.k # "Number" THEN [ok |-> FALSE, message |-> "Left operand must be a number."]
    ELSE IF right.k # "Number"
    THEN [ok |-> FALSE, message |-> "Right operand must be a number."]
    ELSE [ok |-> TRUE, message |-> ""]

\* f64 arithmetic on the integers the sources use; a quotient is modelled
\* where it is an integer, and division by zero gives the IEEE 754 results
Number_div(left, right) ==
    IF right # 0 THEN NumberV(left \div right)
    ELSE IF left = 0 THEN NonFinite("NaN")
    ELSE IF left > 0 THEN NonFinite("inf") ELSE NonFinite("-inf")

\* The match of visit_binary_expr with a + that converts the right operand of
\* a String to its text instead of rejecting it
Interpreter_binary_op_coercing(it, op, left, right) ==
    LET nums == Interpreter_get_number_ops(left, right) IN
    CASE op.t_type \in {"Minus", "Slash", "Star", "Greater", "GreaterEqual", "Less",
                          "LessEqual"} ->
           IF ~nums.ok THEN Throw_Error(it, op, nums.message)
           ELSE Res(it, "Ok",
                    CASE op.t_type = "Minus" -> NumberV(left.v - right.v)
                      [] op.t_type = "Slash" -> Number_div(left.v, right.v)
                      [] op.t_type = "Star" -> NumberV(left.v * right.v)
                      [] op.t_type = "Greater" -> BoolV(left.v > right.v)
                      [] op.t_type = "GreaterEqual" -> BoolV(left.v >= right.v)
                      [] op.t_type = "Less" -> BoolV(left.v < right.v)
                      [] op.t_type = "LessEqual" -> BoolV(left.v <= right.v),
                    "")
      [] op.t_type = "Plus" ->
           CASE left.k = "Number" ->
                  IF ~nums.ok THEN Throw_Error(it, op, nums.message)
                  ELSE Res(it, "Ok", NumberV(left.v + right.v), "")
             [] left.k = "String" ->
                  Res(it, "Ok", StringV(left.v \o Literal_as_str(right)), "")
             [] OTHER ->
                  Throw_Error(it, op, "Operands must be two numbers or two strings.")
      [] op.t_type = "BangEqual" -> Res(it, "Ok", BoolV(~Literal_eq(left, right)), "")
      [] op.t_type = "EqualEqual" -> Res(it, "Ok", BoolV(Literal_eq(left, right)), "")
      [] OTHER ->
           Throw_Error(it, op,
                       "Interpreter data corruption, binary expression has invalid operator")

\* The match on op.t_type of visit_binary_expr, on two literals
Interpreter_binary_op(it, op, left, right) ==
    LET nums == Interpreter_get_number_ops(left, right) IN
    CASE op.t_type \in {"Minus", "Slash", "Star", "Greater", "GreaterEqual", "Less",
                          "LessEqual"} ->
           IF ~nums.ok THEN Throw_Error(it, op, nums.message)
           ELSE Res(it, "Ok",
                    CASE op.t_type = "Minus" -> NumberV(left.v - right.v)
                      [] op.t_type = "Slash" -> Number_div(left.v, right.v)
                      [] op.t_type = "Star" -> NumberV(left.v * right.v)
                      [] op.t_type = "Greater" -> BoolV(left.v > right.v)
                      [] op.t_type = "GreaterEqual" -> BoolV(left.v >= right.v)
                      [] op.t_type = "Less" -> BoolV(left.v < right.v)
                      [] op.t_type = "LessEqual" -> BoolV(left.v <= right.v),
                    "")
      [] op.t_type = "Plus" ->
           CASE left.k = "Number" ->
                  IF ~nums.ok THEN Throw_Error(it, op, nums.message)
                  ELSE Res(it, "Ok", NumberV(left.v + right.v), "")
             [] left.k = "String" ->
                  IF right.k # "String"
                  THEN Throw_Error(it, op, "Cannot concatenate non-string value.")
                  ELSE Res(it, "Ok", StringV(left.v \o right.v), "")
             [] OTHER ->
                  Throw_Error(it, op, "Operands must be two numbers or two strings.")
      [] op.t_type = "BangEqual" -> Res(it, "Ok", BoolV(~Literal_eq(left, right)), "")
      [] op.t_type = "EqualEqual" -> Res(it, "Ok", BoolV(Literal_eq(left, right)), "")
      [] OTHER ->
           Throw_Error(it, op,
                       "Interpreter data corruption, binary expression has invalid operator")

LcClock_call(it, arguments) ==
    Res(Note(it, [ev |-> "body", kind |-> "LcClock", name |-> "clock", lvl |-> it.lvl]),
        "Return", NumberV(it.now), "")

ArityMessage(expected, given) ==
    "Function expected " \o ToString(expected) \o " arguments but was given "
        \o ToString(given)

LcTypeof_call(it, arguments) ==
    IF Len(arguments) # 1
    THEN Throw_Error(it, Token("Fn", "<fn typeof>", 0), ArityMessage(1, Len(arguments)))
    ELSE Res(Note(it, [ev |-> "body", kind |-> "LcTypeof", name |-> "typeof", lvl |-> it.lvl]),
             "Return",
             StringV(IF IsLiteral(arguments[1]) THEN arguments[1].k ELSE "Function"), "")

LcSleep_call(it, arguments) ==
    IF Len(arguments) # 1
    THEN Throw_Error(it, Token("Fn", "<fn sleep>", 0), ArityMessage(1, Len(arguments)))
    ELSE IF arguments[1].k # "Number"
    THEN Throw_Error(it, Token("Fn", "<fn sleep>", 0),
                     "sleep duration must be a number in representing milliseconds")
    ELSE Res(Note([it EXCEPT !.slept = Append(@, arguments[1].v)],
                  [ev |-> "body", kind |-> "LcSleep", name |-> "sleep", lvl |-> it.lvl]),
             "Return", NullV, "")

RECURSIVE Interpreter_evaluate(_, _)
RECURSIVE Interpreter_evaluate_args(_, _, _)
RECURSIVE Interpreter_execute(_, _)
RECURSIVE Interpreter_execute_statements(_, _, _)
RECURSIVE Interpreter_visit_while_stmt(_, _)
RECURSIVE Function_define_params(_, _, _, _)

\* for statement in statements { self.execute(statement)?; } over the first n
\* statements: statement n runs when the ones before it have ended in Ok
Interpreter_execute_statements(it, stmts, n) ==
    IF n = 0 THEN Res(it, "Ok", NullV, "")
    ELSE LET Executed(a) == IF a.k # "Ok" THEN a ELSE Interpreter_execute(a.it, stmts[n])
         IN Executed(Interpreter_execute_statements(it, stmts, n - 1))

\* execute_block without the restore on the early return: the pushed scope
\* stays on the stack when a statement ends in Err
Interpreter_execute_block_no_restore(it, stmts, environment) ==
    LET Restore(a) ==
            IF a.k = "Panic" THEN a
            ELSE [a EXCEPT !.it =
                     Note(IF a.k = "Ok"
                          THEN [@ EXCEPT !.environment = EnvironmentStack_end_scope(@)]
                          ELSE @,
                          [ev |-> "scope", k |-> a.k, lvl |-> it.lvl,
                           from |-> Len(it.log),
                           changed |-> Changed(it.environment,
                                               IF a.k = "Ok"
                                               THEN EnvironmentStack_end_scope(
                                                        a.it.environment)
                                               ELSE a.it.environment),
                           before |-> Domains(it.environment),
                           after |-> Domains(IF a.k = "Ok"
                                             THEN EnvironmentStack_end_scope(
                                                      a.it.environment)
                                             ELSE a.it.environment)])]
    IN Restore(Interpreter_execute_statements(
                   [it EXCEPT !.environment = EnvironmentStack_begin_scope(@, environment)],
                   stmts, Len(stmts)))

\* The new scope is pushed, the statements run, and the scope is popped
\* whether the statements ended in Ok or in Err; a panic unwinds past it
Interpreter_execute_block(it, stmts, environment) ==
    LET Restore(a) ==
            IF a.k = "Panic" THEN a
            ELSE [a EXCEPT !.it =
                     Note([@ EXCEPT !.environment = EnvironmentStack_end_scope(@)],
                          [ev |-> "scope", k |-> a.k, lvl |-> it.lvl,
                           from |-> Len(it.log),
                           changed |-> Changed(it.environment,
                                               EnvironmentStack_end_scope(
                                                   a.it.environment)),
                           before |-> Domains(it.environment),
                           after |-> Domains(EnvironmentStack_end_scope(
                                                 a.it.environment))])]
    IN Restore(Interpreter_execute_statements(
                   [it EXCEPT !.environment = EnvironmentStack_begin_scope(@, environment)],
                   stmts, Len(stmts)))

Interpreter_visit_block_stmt(it, stmts) ==
    Interpreter_execute_block(it, stmts, Environment_new)

Interpreter_visit_expr_stmt(it, ex) ==
    LET Evaluated(a) == IF a.k = "Ok" THEN Res(a.it, "Ok", NullV, "") ELSE a
    IN Evaluated(Interpreter_evaluate(it, ex))

Interpreter_visit_fn_stmt(it, st) ==
    LET function == Function_new(Token("Identifier", st.name, st.sid), st.params, st.body,
                                 EnvironmentStack_top(it.environment))
    IN Res([it EXCEPT !.environment = EnvironmentStack_define(@, st.name, function)],
           "Ok", NullV, "")

Truth(it, ctx, value, outcome) ==
    Note(it, [ev |-> "truthy", ctx |-> ctx, value |-> value, outcome |-> outcome])

TruthName(b) == IF b THEN "true" ELSE "false"

Interpreter_visit_if_stmt(it, st) ==
    LET Evaluated(c) ==
            IF c.k # "Ok" THEN c
            ELSE LET t == Value_is_truthy(c.value)
                     it1 == Truth(c.it, "if", c.value, TruthName(t))
                 IN IF t THEN Interpreter_execute(it1, st.st_then)
                    ELSE IF st.st_else # <<>> THEN Interpreter_execute(it1, st.st_else[1])
                    ELSE Res(it1, "Ok", NullV, "")
    IN Evaluated(Interpreter_evaluate(it, st.condition))

Interpreter_visit_print_stmt(it, ex) ==
    LET Evaluated(a) ==
            IF a.k = "Ok"
            THEN Res([a.it EXCEPT !.output = Append(@, Value_as_str(a.value))],
                     "Ok", NullV, "")
            ELSE a
    IN Evaluated(Interpreter_evaluate(it, ex))

Interpreter_visit_return_stmt(it, ex) ==
    LET Evaluated(a) ==
            IF a.k # "Ok" THEN a
            ELSE Res(Note(a.it, [ev |-> "return", lvl |-> it.lvl, value |-> a.value]),
                     "Return", a.value, "")
    IN Evaluated(Interpreter_evaluate(it, ex))

Interpreter_visit_let_stmt(it, st) ==
    LET Evaluated(a) ==
            IF a.k # "Ok" THEN a
            ELSE Res([a.it EXCEPT
                         !.environment = EnvironmentStack_define(@, st.name, a.value)],
                     "Ok", NullV, "")
    IN Evaluated(Interpreter_evaluate(it, st.initializer))

\* while self.evaluate(condition)?.is_truthy() { self.execute(&body)?; }
Interpreter_visit_while_stmt(it, st) ==
    LET Executed(b) == IF b.k # "Ok" THEN b ELSE Interpreter_visit_while_stmt(b.it, st)
        Evaluated(c) ==
            IF c.k # "Ok" THEN c
            ELSE LET t == Value_is_truthy(c.value)
                     it1 == Truth(c.it, "while", c.value, TruthName(t))
                 IN IF ~t THEN Res(it1, "Ok", NullV, "")
                    ELSE Executed(Interpreter_execute(it1, st.body))
    IN Evaluated(Interpreter_evaluate(it, st.condition))

\* execute: the statement's start is written to the log and the statement
\* accepts the interpreter as its visitor
Interpreter_execute(it0, st) ==
    LET it == Note(it0, [ev |-> "exec", sid |-> st.sid, kind |-> st.kind,
                         lvl |-> it0.lvl, out |-> Len(it0.output)])
    IN CASE st.kind = "Block" -> Interpreter_visit_block_stmt(it, st.statements)
         [] st.kind = "Expression" -> Interpreter_visit_expr_stmt(it, st.ex)
         [] st.kind = "Function" -> Interpreter_visit_fn_stmt(it, st)
         [] st.kind = "If" -> Interpreter_visit_if_stmt(it, st)
         [] st.kind = "Print" -> Interpreter_visit_print_stmt(it, st.ex)
         [] st.kind = "Return" -> Interpreter_visit_return_stmt(it, st.ex)
         [] st.kind = "Let" -> Interpreter_visit_let_stmt(it, st)
         [] st.kind = "While" -> Interpreter_visit_while_stmt(it, st)

\* self.closure.define(params[i], arguments[i]) for each parameter
Function_define_params(closure, params, arguments, i) ==
    IF i > Len(params) THEN closure
    ELSE Function_define_params(Environment_define(closure, params[i], arguments[i]),
                                params, arguments, i + 1)

\* Function::call that answers Null whatever the body returned
Function_call_null(it, func, arguments) ==
    IF Len(arguments) # Len(func.params)
    THEN Throw_Error(it, Token("Identifier", func.name, func.span),
                     ArityMessage(Len(func.params), Len(arguments)))
    ELSE LET Executed(a) ==
                 IF a.k \in {"Ok", "Return"} THEN Res(a.it, "Return", NullV, "") ELSE a
         IN Executed(Interpreter_execute_block(
                         Note(it, [ev |-> "body", kind |-> "Function",
                                   name |-> func.name, lvl |-> it.lvl]),
                         func.body,
                         Function_define_params(func.closure, func.params, arguments, 1)))

Function_call(it, func, arguments) ==
    IF Len(arguments) # Len(func.params)
    THEN Throw_Error(it, Token("Identifier", func.name, func.span),
                     ArityMessage(Len(func.params), Len(arguments)))
    ELSE LET Executed(a) == IF a.k = "Ok" THEN Res(a.it, "Return", NullV, "") ELSE a
         IN Executed(Interpreter_execute_block(
                         Note(it, [ev |-> "body", kind |-> "Function",
                                   name |-> func.name, lvl |-> it.lvl]),
                         func.body,
                         Function_define_params(func.closure, func.params, arguments, 1)))

\* dyn Callable dispatch
Callable_call(it, func, arguments) ==
    CASE func.kind = "Function" -> Function_call(it, func, arguments)
      [] func.kind = "LcClock" -> LcClock_call(it, arguments)
      [] func.kind = "LcTypeof" -> LcTypeof_call(it, arguments)
      [] func.kind = "LcSleep" -> LcSleep_call(it, arguments)

Interpreter_visit_assign_expr(it, ex) ==
    LET Evaluated(a) ==
            IF a.k # "Ok" THEN a
            ELSE LET r == IF ex.id \in DOMAIN a.it.locals
                          THEN EnvironmentStack_assign_at(a.it.environment, ex.name,
                                                          a.value, a.it.locals[ex.id])
                          ELSE EnvironmentStack_global_assign(a.it.environment, ex.name,
                                                              a.value)
                     k == IF r.ok THEN "Ok" ELSE IF r.panic THEN "Panic" ELSE "Error"
                     it1 == Note([a.it EXCEPT !.environment = r.stack],
                                 [ev |-> "var", op |-> "assign", id |-> ex.id,
                                  name |-> ex.name,
                                  has_depth |-> ex.id \in DOMAIN a.it.locals,
                                  global_bound |-> ex.name \in DOMAIN a.it.environment[1],
                                  k |-> k, message |-> r.message])
                 IN IF k = "Error" THEN Throw_Error(it1, Token("Identifier", ex.name, ex.id), r.message)
                    ELSE Res(it1, k, IF r.ok THEN a.value ELSE NullV, r.message)
    IN Evaluated(Interpreter_evaluate(it, ex.value))

Interpreter_visit_binary_expr(it, ex) ==
    LET Right(l, r) ==
            IF r.k # "Ok" THEN r
            ELSE IF ~IsLiteral(r.value)
            THEN Throw_Error(r.it, Token(ex.op, "", ex.id),
                             "Operands must be two numbers or two strings. Did you forget to call the function?")
            ELSE Interpreter_binary_op(r.it, Token(ex.op, "", ex.id), l.value, r.value)
        Left(l) ==
            IF l.k # "Ok" THEN l
            ELSE IF ~IsLiteral(l.value)
            THEN Throw_Error(l.it, Token(ex.op, "", ex.id),
                             "Operands must be two numbers or two strings. Did you forget to call the function?")
            ELSE Right(l, Interpreter_evaluate(l.it, ex.right))
    IN Left(Interpreter_evaluate(it, ex.left))

\* for arg in args { arguments.push(self.evaluate(arg)?); } over the first n
\* arguments; the value of the result is the vector arguments
Interpreter_evaluate_args(it, args, n) ==
    IF n = 0 THEN Res(it, "Ok", <<>>, "")
    ELSE LET Pushed(pushed, a) ==
                 IF a.k # "Ok" THEN a
                 ELSE Res(a.it, "Ok", Append(pushed.value, a.value), "")
             Evaluated(pushed) ==
                 IF pushed.k # "Ok" THEN pushed
                 ELSE Pushed(pushed, Interpreter_evaluate(pushed.it, args[n]))
         IN Evaluated(Interpreter_evaluate_args(it, args, n - 1))

Interpreter_visit_call_expr(it, ex) ==
    LET Called(args, func, c) ==
            IF c.k = "Panic" THEN c
            ELSE LET k == IF c.k = "Return" THEN "Ok" ELSE c.k IN
                 Res(Note([c.it EXCEPT !.lvl = it.lvl],
                          [ev |-> "ret", id |-> ex.id, kind |-> func.kind,
                           arity |-> Callable_arity(func),
                           nargs |-> Len(args.value), lvl |-> it.lvl + 1,
                           k |-> k, value |-> c.value, message |-> c.message,
                           before |-> Domains(it.environment),
                           after |-> Domains(c.it.environment)]),
                     k, c.value, c.message)
        Evaluated(args) ==
            IF args.k # "Ok" THEN args
            ELSE LET g == EnvironmentStack_get(args.it.environment, ex.callee.name) IN
                 CASE ~g.ok ->
                        Throw_Error(args.it,
                                    Token("Identifier", ex.callee.name, ex.callee.id),
                                    g.message)
                   [] IsLiteral(g.value) ->
                        Throw_Error(args.it,
                                    Token("Identifier", ex.callee.name, ex.callee.id),
                                    "Not a valid function call.")
                   [] OTHER ->
                        Called(args, g.value.v,
                               Callable_call(
                                   Note([args.it EXCEPT !.lvl = @ + 1],
                                        [ev |-> "call", id |-> ex.id,
                                         name |-> ex.callee.name, lvl |-> it.lvl + 1,
                                         has_depth |-> ex.callee.id \in DOMAIN it.locals,
                                         global_bound |->
                                             ex.callee.name \in DOMAIN args.it.environment[1],
                                         global_value |->
                                             Environment_get(args.it.environment[1],
                                                             ex.callee.name).value,
                                         variable |->
                                             IF ex.callee.id \in DOMAIN it.locals
                                             THEN EnvironmentStack_get_at(
                                                      args.it.environment, ex.callee.name,
                                                      it.locals[ex.callee.id])
                                             ELSE EnvironmentStack_global_get(
                                                      args.it.environment, ex.callee.name),
                                         value |-> g.value]),
                                   g.value.v, args.value))
    IN IF ex.callee.kind # "Variable"
       THEN Throw_Error(it, Token("RightParen", "", ex.id), "Not a valid function call.")
       ELSE Evaluated(Interpreter_evaluate_args(it, ex.args, Len(ex.args)))

Interpreter_visit_logical_expr(it, ex) ==
    LET Left(l) ==
            IF l.k # "Ok" THEN l
            ELSE LET t == Value_is_truthy(l.value)
                     it1 == Truth(l.it, ex.op, l.value, TruthName(t))
                 IN IF ex.op = "Or"
                    THEN (IF t THEN Res(it1, "Ok", l.value, "")
                          ELSE Interpreter_evaluate(it1, ex.right))
                    ELSE (IF ~t THEN Res(it1, "Ok", l.value, "")
                          ELSE Interpreter_evaluate(it1, ex.right))
    IN Left(Interpreter_evaluate(it, ex.left))

Interpreter_visit_unary_expr(it, ex) ==
    LET Evaluated(a) ==
            IF a.k # "Ok" THEN a
            ELSE IF ~IsLiteral(a.value)
            THEN Throw_Error(
                     IF ex.op = "Bang" THEN Truth(a.it, "Bang", a.value, "error")
                     ELSE a.it,
                     Token(ex.op, "", ex.id),
                     "Unary operand must be numeric. Did you forget to call the function?")
            ELSE CASE ex.op = "Minus" ->
                        IF a.value.k = "Number"
                        THEN Res(a.it, "Ok", NumberV(0 - a.value.v), "")
                        ELSE Throw_Error(a.it, Token(ex.op, "", ex.id),
                                         "Unary operand must be numeric.")
                   [] ex.op = "Bang" ->
                        Res(Truth(a.it, "Bang", a.value,
                                  TruthName(Literal_is_truthy(a.value))),
                            "Ok", BoolV(~Literal_is_truthy(a.value)), "")
                   [] OTHER ->
                        Throw_Error(a.it, Token(ex.op, "", ex.id),
                                    "Interpreter data corruption, unary expression has invalid operator")
    IN Evaluated(Interpreter_evaluate(it, ex.ex))

\* evaluate: the expression accepts the interpreter as its visitor
Interpreter_evaluate(it, ex) ==
    CASE ex.kind = "Assign" -> Interpreter_visit_assign_expr(it, ex)
      [] ex.kind = "Binary" -> Interpreter_visit_binary_expr(it, ex)
      [] ex.kind = "Call" -> Interpreter_visit_call_expr(it, ex)
      [] ex.kind = "Grouping" -> Interpreter_evaluate(it, ex.ex)
      [] ex.kind = "Literal" -> Res(it, "Ok", ex.value, "")
      [] ex.kind = "Logical" -> Interpreter_visit_logical_expr(it, ex)
      [] ex.kind = "Unary" -> Interpreter_visit_unary_expr(it, ex)
      [] ex.kind = "Variable" -> Interpreter_visit_var_expr(it, ex)

\* interpret that reports every Err of execute, a Return signal too, as a
\* runtime error
Interpreter_interpret_every_throw(it, stmts, i) ==
    IF i > Len(stmts) THEN Res(it, "Ok", NullV, "")
    ELSE LET Executed(a) ==
                 CASE a.k = "Ok" -> Res(a.it, "Next", NullV, "")
                   [] a.k = "Panic" -> a
                   [] OTHER -> Res(a.it, "RuntimeError", NullV, a.message)
         IN Executed(Interpreter_execute(it, stmts[i]))

\* interpret that goes on with the next statement after a runtime error
Interpreter_interpret_past_errors(it, stmts, i) ==
    IF i > Len(stmts) THEN Res(it, "Ok", NullV, "")
    ELSE LET Executed(a) ==
                 CASE a.k \in {"Ok", "Error"} -> Res(a.it, "Next", NullV, "")
                   [] a.k = "Panic" -> a
                   [] OTHER -> Res(a.it, "Ok", NullV, "")
         IN Executed(Interpreter_execute(it, stmts[i]))

\* One turn of the loop of interpret on statements[i]: a Throw::Error returns
\* the runtime error, any other Err (a Return signal) breaks out of the loop,
\* and the end of the loop returns Ok(())
Interpreter_interpret(it, stmts, i) ==
    IF i > Len(stmts) THEN Res(it, "Ok", NullV, "")
    ELSE LET Executed(a) ==
                 CASE a.k = "Ok" -> Res(a.it, "Next", NullV, "")
                   [] a.k = "Error" -> Res(a.it, "RuntimeError", NullV, a.message)
                   [] a.k = "Panic" -> a
                   [] OTHER -> Res(a.it, "Ok", NullV, "")
         IN Executed(Interpreter_execute(it, stmts[i]))

Interpreter_new ==
    [environment |-> EnvironmentStack_new(define_builtins(Environment_new)),
     locals |-> [n \in {} |-> 0],
     output |-> <<>>,
     slept |-> <<>>]

-----------------------------------------------------------------------------
(* The lines given to run(): each with the errors the scanner and the      *)
(* parser report for its text and the statements the parser returns.       *)

\* tests/test_code_samples.rs, closure_scope
Src_closure_scope ==
    [text |-> "let a = \"global\"; { fn showA() { print a; } showA(); let a = \"block\"; showA(); }",
     lex_errors |-> <<>>,
     parse_errors |-> <<>>,
     statements |-> <<
        Stmt_Let(101, "a", Expr_Literal(101, StringV("global"))),
        Stmt_Block(102, <<
          Stmt_Function(103, "showA", <<>>, <<
            Stmt_Print(104, Expr_Variable(102, "a")) >>),
          Stmt_Expression(105, Expr_Call(103, Expr_Variable(104, "showA"), <<>>)),
          Stmt_Let(106, "a", Expr_Literal(105, StringV("block"))),
          Stmt_Expression(107, Expr_Call(106, Expr_Variable(107, "showA"), <<>>)) >>) >>]

\* the closure-scope program with the free variable bound in an enclosing block
Src_closure_outer ==
    [text |-> "{ let a = \"outer\"; { fn showA() { print a; } showA(); let a = \"block\"; showA(); } }",
     lex_errors |-> <<>>,
     parse_errors |-> <<>>,
     statements |-> <<
        Stmt_Block(201, <<
          Stmt_Let(202, "a", Expr_Literal(201, StringV("outer"))),
          Stmt_Block(203, <<
            Stmt_Function(204, "showA", <<>>, <<
              Stmt_Print(205, Expr_Variable(202, "a")) >>),
            Stmt_Expression(206, Expr_Call(203, Expr_Variable(204, "showA"), <<>>)),
            Stmt_Let(207, "a", Expr_Literal(205, StringV("block"))),
            Stmt_Expression(208, Expr_Call(206, Expr_Variable(207, "showA"), <<>>)) >>) >>) >>]

\* a function value returned from the call that declared it
Src_escape_return ==
    [text |-> "fn make() { let c = \"captured\"; fn inner() { print c; } return inner; } let f = make(); f(); print \"end\";",
     lex_errors |-> <<>>,
     parse_errors |-> <<>>,
     statements |-> <<
        Stmt_Function(301, "make", <<>>, <<
          Stmt_Let(302, "c", Expr_Literal(301, StringV("captured"))),
          Stmt_Function(303, "inner", <<>>, <<
            Stmt_Print(304, Expr_Variable(302, "c")) >>),
          Stmt_Return(305, Expr_Variable(303, "inner")) >>),
        Stmt_Let(306, "f", Expr_Call(304, Expr_Variable(305, "make"), <<>>)),
        Stmt_Expression(307, Expr_Call(306, Expr_Variable(307, "f"), <<>>)),
        Stmt_Print(308, Expr_Literal(308, StringV("end"))) >>]

\* a function value assigned to a global from the block that declared it
Src_escape_assign ==
    [text |-> "let g = null; { let c = \"kept\"; fn inner() { print c; } g = inner; } g(); print \"end\";",
     lex_errors |-> <<>>,
     parse_errors |-> <<>>,
     statements |-> <<
        Stmt_Let(401, "g", Expr_Literal(401, NullV)),
        Stmt_Block(402, <<
          Stmt_Let(403, "c", Expr_Literal(402, StringV("kept"))),
          Stmt_Function(404, "inner", <<>>, <<
            Stmt_Print(405, Expr_Variable(403, "c")) >>),
          Stmt_Expression(406, Expr_Assign(404, "g", Expr_Variable(405, "inner"))) >>),
        Stmt_Expression(407, Expr_Call(406, Expr_Variable(407, "g"), <<>>)),
        Stmt_Print(408, Expr_Literal(408, StringV("end"))) >>]

\* a runtime error raised inside a block inside a call inside a block
Src_nested_error ==
    [text |-> "let x = 1; print x; { let y = 2; fn boom() { print \"in\"; { print \"x\" - 1; } print \"never\"; } boom(); print \"never\"; } print \"never\";",
     lex_errors |-> <<>>,
     parse_errors |-> <<>>,
     statements |-> <<
        Stmt_Let(501, "x", Expr_Literal(501, NumberV(1))),
        Stmt_Print(502, Expr_Variable(502, "x")),
        Stmt_Block(503, <<
          Stmt_Let(504, "y", Expr_Literal(503, NumberV(2))),
          Stmt_Function(505, "boom", <<>>, <<
            Stmt_Print(506, Expr_Literal(504, StringV("in"))),
            Stmt_Block(507, <<
              Stmt_Print(508, Expr_Binary(505, Expr_Literal(506, StringV("x")), "Minus", Expr_Literal(507, NumberV(1)))) >>),
            Stmt_Print(509, Expr_Literal(508, StringV("never"))) >>),
          Stmt_Expression(510, Expr_Call(509, Expr_Variable(510, "boom"), <<>>)),
          Stmt_Print(511, Expr_Literal(511, StringV("never"))) >>),
        Stmt_Print(512, Expr_Literal(512, StringV("never"))) >>]

\* tests/test_code_samples.rs, undefined_variable (with x for a)
Src_read_x ==
    [text |-> "print x;",
     lex_errors |-> <<>>,
     parse_errors |-> <<>>,
     statements |-> <<
        Stmt_Print(601, Expr_Variable(601, "x")) >>]

\* an assignment to a name no scope binds, then to a global
Src_assign_y ==
    [text |-> "let z = 0; z = 5; print z; y = 1; print \"never\";",
     lex_errors |-> <<>>,
     parse_errors |-> <<>>,
     statements |-> <<
        Stmt_Let(701, "z", Expr_Literal(701, NumberV(0))),
        Stmt_Expression(702, Expr_Assign(702, "z", Expr_Literal(703, NumberV(5)))),
        Stmt_Print(703, Expr_Variable(704, "z")),
        Stmt_Expression(704, Expr_Assign(705, "y", Expr_Literal(706, NumberV(1)))),
        Stmt_Print(705, Expr_Literal(707, StringV("never"))) >>]

\* tests/test_code_samples.rs, single_recursion, with the print after the inner call
Src_single_recursion ==
    [text |-> "fn toZero(n) { if (n <= 0) return; toZero(n-1); print n; } toZero(1);",
     lex_errors |-> <<>>,
     parse_errors |-> <<>>,
     statements |-> <<
        Stmt_Function(801, "toZero", <<"n">>, <<
          Stmt_If(802, Expr_Binary(801, Expr_Variable(802, "n"), "LessEqual", Expr_Literal(803, NumberV(0))),
            Stmt_Return(803, Expr_Literal(804, NullV)),
            <<>>),
          Stmt_Expression(804, Expr_Call(805, Expr_Variable(806, "toZero"), <<Expr_Binary(807, Expr_Variable(808, "n"), "Minus", Expr_Literal(809, NumberV(1)))>>)),
          Stmt_Print(805, Expr_Variable(810, "n")) >>),
        Stmt_Expression(806, Expr_Call(811, Expr_Variable(812, "toZero"), <<Expr_Literal(813, NumberV(1))>>)) >>]

\* return from inside a block inside a loop; a body without return
Src_return_nested ==
    [text |-> "fn find() { let i = 0; while (true) { { if (i == 1) return i; } i = i + 1; } print \"never\"; } print find(); fn noret() { } print noret(); print \"after\";",
     lex_errors |-> <<>>,
     parse_errors |-> <<>>,
     statements |-> <<
        Stmt_Function(901, "find", <<>>, <<
          Stmt_Let(902, "i", Expr_Literal(901, NumberV(0))),
          Stmt_While(903, Expr_Literal(902, BoolV(TRUE)),
            Stmt_Block(904, <<
              Stmt_Block(905, <<
                Stmt_If(906, Expr_Binary(903, Expr_Variable(904, "i"), "EqualEqual", Expr_Literal(905, NumberV(1))),
                  Stmt_Return(907, Expr_Variable(906, "i")),
                  <<>>) >>),
              Stmt_Expression(908, Expr_Assign(907, "i", Expr_Binary(908, Expr_Variable(909, "i"), "Plus", Expr_Literal(910, NumberV(1))))) >>)),
          Stmt_Print(909, Expr_Literal(911, StringV("never"))) >>),
        Stmt_Print(910, Expr_Call(912, Expr_Variable(913, "find"), <<>>)),
        Stmt_Function(911, "noret", <<>>, <<>>),
        Stmt_Print(912, Expr_Call(914, Expr_Variable(915, "noret"), <<>>)),
        Stmt_Print(913, Expr_Literal(916, StringV("after"))) >>]

\* a user function called with too few arguments
Src_arity_user ==
    [text |-> "fn two(a, b) { print \"body\"; } two(1, 2); two(1); print \"never\";",
     lex_errors |-> <<>>,
     parse_errors |-> <<>>,
     statements |-> <<
        Stmt_Function(1001, "two", <<"a", "b">>, <<
          Stmt_Print(1002, Expr_Literal(1001, StringV("body"))) >>),
        Stmt_Expression(1003, Expr_Call(1002, Expr_Variable(1003, "two"), <<Expr_Literal(1004, NumberV(1)), Expr_Literal(1005, NumberV(2))>>)),
        Stmt_Expression(1004, Expr_Call(1006, Expr_Variable(1007, "two"), <<Expr_Literal(1008, NumberV(1))>>)),
        Stmt_Print(1005, Expr_Literal(1009, StringV("never"))) >>]

\* typeof called with two arguments
Src_arity_typeof ==
    [text |-> "print typeof(1); print typeof(1, 2); print \"never\";",
     lex_errors |-> <<>>,
     parse_errors |-> <<>>,
     statements |-> <<
        Stmt_Print(1101, Expr_Call(1101, Expr_Variable(1102, "typeof"), <<Expr_Literal(1103, NumberV(1))>>)),
        Stmt_Print(1102, Expr_Call(1104, Expr_Variable(1105, "typeof"), <<Expr_Literal(1106, NumberV(1)), Expr_Literal(1107, NumberV(2))>>)),
        Stmt_Print(1103, Expr_Literal(1108, StringV("never"))) >>]

\* sleep called with no argument
Src_arity_sleep ==
    [text |-> "sleep(5); sleep(); print \"never\";",
     lex_errors |-> <<>>,
     parse_errors |-> <<>>,
     statements |-> <<
        Stmt_Expression(1201, Expr_Call(1201, Expr_Variable(1202, "sleep"), <<Expr_Literal(1203, NumberV(5))>>)),
        Stmt_Expression(1202, Expr_Call(1204, Expr_Variable(1205, "sleep"), <<>>)),
        Stmt_Print(1203, Expr_Literal(1206, StringV("never"))) >>]

\* clock called with one argument
Src_arity_clock ==
    [text |-> "print typeof(clock()); print typeof(clock(1)); print \"after\";",
     lex_errors |-> <<>>,
     parse_errors |-> <<>>,
     statements |-> <<
        Stmt_Print(1301, Expr_Call(1301, Expr_Variable(1302, "typeof"), <<Expr_Call(1303, Expr_Variable(1304, "clock"), <<>>)>>)),
        Stmt_Print(1302, Expr_Call(1305, Expr_Variable(1306, "typeof"), <<Expr_Call(1307, Expr_Variable(1308, "clock"), <<Expr_Literal(1309, NumberV(1))>>)>>)),
        Stmt_Print(1303, Expr_Literal(1310, StringV("after"))) >>]

\* every kind of value as a condition
Src_truthy ==
    [text |-> "fn f() { } fn w() { while (f) { return \"looped\"; } return \"skipped\"; } if (0) print \"0 yes\"; else print \"0 no\"; if (\"\") print \"empty yes\"; else print \"empty no\"; if (null) print \"null yes\"; else print \"null no\"; if (false) print \"false yes\"; else print \"false no\"; if (true) print \"true yes\"; if (f) print \"fn yes\"; else print \"fn no\"; print w(); print f or \"rhs\"; print 0 and \"rhs\"; print !0; print !null; print !f;",
     lex_errors |-> <<>>,
     parse_errors |-> <<>>,
     statements |-> <<
        Stmt_Function(1401, "f", <<>>, <<>>),
        Stmt_Function(1402, "w", <<>>, <<
          Stmt_While(1403, Expr_Variable(1401, "f"),
            Stmt_Block(1404, <<
              Stmt_Return(1405, Expr_Literal(1402, StringV("looped"))) >>)),
          Stmt_Return(1406, Expr_Literal(1403, StringV("skipped"))) >>),
        Stmt_If(1407, Expr_Literal(1404, NumberV(0)),
          Stmt_Print(1408, Expr_Literal(1405, StringV("0 yes"))),
          <<Stmt_Print(1409, Expr_Literal(1406, StringV("0 no")))>>),
        Stmt_If(1410, Expr_Literal(1407, StringV("")),
          Stmt_Print(1411, Expr_Literal(1408, StringV("empty yes"))),
          <<Stmt_Print(1412, Expr_Literal(1409, StringV("empty no")))>>),
        Stmt_If(1413, Expr_Literal(1410, NullV),
          Stmt_Print(1414, Expr_Literal(1411, StringV("null yes"))),
          <<Stmt_Print(1415, Expr_Literal(1412, StringV("null no")))>>),
        Stmt_If(1416, Expr_Literal(1413, BoolV(FALSE)),
          Stmt_Print(1417, Expr_Literal(1414, StringV("false yes"))),
          <<Stmt_Print(1418, Expr_Literal(1415, StringV("false no")))>>),
        Stmt_If(1419, Expr_Literal(1416, BoolV(TRUE)),
          Stmt_Print(1420, Expr_Literal(1417, StringV("true yes"))),
          <<>>),
        Stmt_If(1421, Expr_Variable(1418, "f"),
          Stmt_Print(1422, Expr_Literal(1419, StringV("fn yes"))),
          <<Stmt_Print(1423, Expr_Literal(1420, StringV("fn no")))>>),
        Stmt_Print(1424, Expr_Call(1421, Expr_Variable(1422, "w"), <<>>)),
        Stmt_Print(1425, Expr_Logical(1423, Expr_Variable(1424, "f"), "Or", Expr_Literal(1425, StringV("rhs")))),
        Stmt_Print(1426, Expr_Logical(1426, Expr_Literal(1427, NumberV(0)), "And", Expr_Literal(1428, StringV("rhs")))),
        Stmt_Print(1427, Expr_Unary(1429, "Bang", Expr_Literal(1430, NumberV(0)))),
        Stmt_Print(1428, Expr_Unary(1431, "Bang", Expr_Literal(1432, NullV))),
        Stmt_Print(1429, Expr_Unary(1433, "Bang", Expr_Variable(1434, "f"))) >>]

\* an unexpected character after a well-formed statement
Src_lex_error ==
    [text |-> "print \"lexed\"; x = 1; @",
     lex_errors |-> <<"Unexpected character @">>,
     parse_errors |-> <<>>,
     statements |-> <<
        Stmt_Print(1501, Expr_Literal(1501, StringV("lexed"))),
        Stmt_Expression(1502, Expr_Assign(1502, "x", Expr_Literal(1503, NumberV(1)))) >>]

\* a resolver error after a well-formed statement
Src_resolve_error ==
    [text |-> "print \"resolved\"; let x = 2; { let a = a; }",
     lex_errors |-> <<>>,
     parse_errors |-> <<>>,
     statements |-> <<
        Stmt_Print(1601, Expr_Literal(1601, StringV("resolved"))),
        Stmt_Let(1602, "x", Expr_Literal(1602, NumberV(2))),
        Stmt_Block(1603, <<
          Stmt_Let(1604, "a", Expr_Variable(1603, "a")) >>) >>]

\* one error of each translation stage
Src_three_errors ==
    [text |-> "@ print ; print \"parsed\"; return;",
     lex_errors |-> <<"Unexpected character @">>,
     parse_errors |-> <<"Expected expression.">>,
     statements |-> <<
        Stmt_Print(1701, Expr_Literal(1701, StringV("parsed"))),
        Stmt_Return(1702, Expr_Literal(1702, NullV)) >>]

\* two sibling blocks that shadow a global
Src_block_scope ==
    [text |-> "let x = \"outside\"; { let x = \"first\"; print x; } { let x = \"second\"; print x; } print x;",
     lex_errors |-> <<>>,
     parse_errors |-> <<>>,
     statements |-> <<
        Stmt_Let(1801, "x", Expr_Literal(1801, StringV("outside"))),
        Stmt_Block(1802, <<
          Stmt_Let(1803, "x", Expr_Literal(1802, StringV("first"))),
          Stmt_Print(1804, Expr_Variable(1803, "x")) >>),
        Stmt_Block(1805, <<
          Stmt_Let(1806, "x", Expr_Literal(1804, StringV("second"))),
          Stmt_Print(1807, Expr_Variable(1805, "x")) >>),
        Stmt_Print(1808, Expr_Variable(1806, "x")) >>]

\* nested blocks that shadow some of the enclosing bindings
Src_shadowing ==
    [text |-> "let a = \"global a\"; let b = \"global b\"; let c = \"global c\"; { let a = \"outer a\"; let b = \"outer b\"; { let a = \"inner a\"; print a; print b; print c; } print a; print b; print c; } print a; print b; print c;",
     lex_errors |-> <<>>,
     parse_errors |-> <<>>,
     statements |-> <<
        Stmt_Let(1901, "a", Expr_Literal(1901, StringV("global a"))),
        Stmt_Let(1902, "b", Expr_Literal(1902, StringV("global b"))),
        Stmt_Let(1903, "c", Expr_Literal(1903, StringV("global c"))),
        Stmt_Block(1904, <<
          Stmt_Let(1905, "a", Expr_Literal(1904, StringV("outer a"))),
          Stmt_Let(1906, "b", Expr_Literal(1905, StringV("outer b"))),
          Stmt_Block(1907, <<
            Stmt_Let(1908, "a", Expr_Literal(1906, StringV("inner a"))),
            Stmt_Print(1909, Expr_Variable(1907, "a")),
            Stmt_Print(1910, Expr_Variable(1908, "b")),
            Stmt_Print(1911, Expr_Variable(1909, "c")) >>),
          Stmt_Print(1912, Expr_Variable(1910, "a")),
          Stmt_Print(1913, Expr_Variable(1911, "b")),
          Stmt_Print(1914, Expr_Variable(1912, "c")) >>),
        Stmt_Print(1915, Expr_Variable(1913, "a")),
        Stmt_Print(1916, Expr_Variable(1914, "b")),
        Stmt_Print(1917, Expr_Variable(1915, "c")) >>]

\* a block that declares one name and assigns to two
Src_block_assign ==
    [text |-> "let x = \"outside\"; let y = \"kept\"; { let y = \"inner\"; x = \"assigned\"; y = \"inner assigned\"; print y; } print x; print y;",
     lex_errors |-> <<>>,
     parse_errors |-> <<>>,
     statements |-> <<
        Stmt_Let(2001, "x", Expr_Literal(2001, StringV("outside"))),
        Stmt_Let(2002, "y", Expr_Literal(2002, StringV("kept"))),
        Stmt_Block(2003, <<
          Stmt_Let(2004, "y", Expr_Literal(2003, StringV("inner"))),
          Stmt_Expression(2005, Expr_Assign(2004, "x", Expr_Literal(2005, StringV("assigned")))),
          Stmt_Expression(2006, Expr_Assign(2006, "y", Expr_Literal(2007, StringV("inner assigned")))),
          Stmt_Print(2007, Expr_Variable(2008, "y")) >>),
        Stmt_Print(2008, Expr_Variable(2009, "x")),
        Stmt_Print(2009, Expr_Variable(2010, "y")) >>]

\* two global functions that call each other
Src_mutual_recursion ==
    [text |-> "fn isOdd(n) { if (n == 0) return false; return isEven(n-1); } fn isEven(n) { if (n == 0) return true; return isOdd(n-1); } print isEven(2); print isEven(5.0); print isOdd(3); print isOdd(2);",
     lex_errors |-> <<>>,
     parse_errors |-> <<>>,
     statements |-> <<
        Stmt_Function(2101, "isOdd", <<"n">>, <<
          Stmt_If(2102, Expr_Binary(2101, Expr_Variable(2102, "n"), "EqualEqual", Expr_Literal(2103, NumberV(0))),
            Stmt_Return(2103, Expr_Literal(2104, BoolV(FALSE))),
            <<>>),
          Stmt_Return(2104, Expr_Call(2105, Expr_Variable(2106, "isEven"), <<Expr_Binary(2107, Expr_Variable(2108, "n"), "Minus", Expr_Literal(2109, NumberV(1)))>>)) >>),
        Stmt_Function(2105, "isEven", <<"n">>, <<
          Stmt_If(2106, Expr_Binary(2110, Expr_Variable(2111, "n"), "EqualEqual", Expr_Literal(2112, NumberV(0))),
            Stmt_Return(2107, Expr_Literal(2113, BoolV(TRUE))),
            <<>>),
          Stmt_Return(2108, Expr_Call(2114, Expr_Variable(2115, "isOdd"), <<Expr_Binary(2116, Expr_Variable(2117, "n"), "Minus", Expr_Literal(2118, NumberV(1)))>>)) >>),
        Stmt_Print(2109, Expr_Call(2119, Expr_Variable(2120, "isEven"), <<Expr_Literal(2121, NumberV(2))>>)),
        Stmt_Print(2110, Expr_Call(2122, Expr_Variable(2123, "isEven"), <<Expr_Literal(2124, NumberV(5))>>)),
        Stmt_Print(2111, Expr_Call(2125, Expr_Variable(2126, "isOdd"), <<Expr_Literal(2127, NumberV(3))>>)),
        Stmt_Print(2112, Expr_Call(2128, Expr_Variable(2129, "isOdd"), <<Expr_Literal(2130, NumberV(2))>>)) >>]

\* a function that reads a global defined and assigned after it
Src_late_global ==
    [text |-> "fn show() { print late; } let late = \"defined later\"; show(); late = \"assigned later\"; show();",
     lex_errors |-> <<>>,
     parse_errors |-> <<>>,
     statements |-> <<
        Stmt_Function(2201, "show", <<>>, <<
          Stmt_Print(2202, Expr_Variable(2201, "late")) >>),
        Stmt_Let(2203, "late", Expr_Literal(2202, StringV("defined later"))),
        Stmt_Expression(2204, Expr_Call(2203, Expr_Variable(2204, "show"), <<>>)),
        Stmt_Expression(2205, Expr_Assign(2205, "late", Expr_Literal(2206, StringV("assigned later")))),
        Stmt_Expression(2206, Expr_Call(2207, Expr_Variable(2208, "show"), <<>>)) >>]

\* a function that calls a global redefined after it
Src_redefined_callee ==
    [text |-> "fn a() { print \"old\"; } fn f() { a(); } fn a() { print \"new\"; } f();",
     lex_errors |-> <<>>,
     parse_errors |-> <<>>,
     statements |-> <<
        Stmt_Function(2301, "a", <<>>, <<
          Stmt_Print(2302, Expr_Literal(2301, StringV("old"))) >>),
        Stmt_Function(2303, "f", <<>>, <<
          Stmt_Expression(2304, Expr_Call(2302, Expr_Variable(2303, "a"), <<>>)) >>),
        Stmt_Function(2305, "a", <<>>, <<
          Stmt_Print(2306, Expr_Literal(2304, StringV("new"))) >>),
        Stmt_Expression(2307, Expr_Call(2305, Expr_Variable(2306, "f"), <<>>)) >>]

\* a function that reads a local of the enclosing block, called from a
\* block nested deeper than its declaration
Src_deeper_call ==
    [text |-> "{ let a = 1; fn f() { print a; } { f(); } }",
     lex_errors |-> <<>>,
     parse_errors |-> <<>>,
     statements |-> <<
        Stmt_Block(2401, <<
          Stmt_Let(2402, "a", Expr_Literal(2401, NumberV(1))),
          Stmt_Function(2403, "f", <<>>, <<
            Stmt_Print(2404, Expr_Variable(2402, "a")) >>),
          Stmt_Block(2405, <<
            Stmt_Expression(2406, Expr_Call(2403, Expr_Variable(2404, "f"), <<>>)) >>) >>) >>]

\* a function that reads a local of the enclosing block after it has called
\* itself
Src_recursive_local ==
    [text |-> "let go = true; { let a = 1; fn f() { if (go) { go = false; f(); } print a; } f(); }",
     lex_errors |-> <<>>,
     parse_errors |-> <<>>,
     statements |-> <<
        Stmt_Let(2501, "go", Expr_Literal(2501, BoolV(TRUE))),
        Stmt_Block(2502, <<
          Stmt_Let(2503, "a", Expr_Literal(2502, NumberV(1))),
          Stmt_Function(2504, "f", <<>>, <<
            Stmt_If(2505, Expr_Variable(2503, "go"),
              Stmt_Block(2506, <<
                Stmt_Expression(2507, Expr_Assign(2504, "go", Expr_Literal(2505, BoolV(FALSE)))),
                Stmt_Expression(2508, Expr_Call(2506, Expr_Variable(2507, "f"), <<>>)) >>),
              <<>>),
            Stmt_Print(2509, Expr_Variable(2508, "a")) >>),
          Stmt_Expression(2510, Expr_Call(2509, Expr_Variable(2510, "f"), <<>>)) >>) >>]

\* a function that reads a local two scopes up, called after both scopes
\* have ended
Src_deep_escape ==
    [text |-> "let h = null; { let x = 1; { fn b() { print x; } h = b; } } h();",
     lex_errors |-> <<>>,
     parse_errors |-> <<>>,
     statements |-> <<
        Stmt_Let(2601, "h", Expr_Literal(2601, NullV)),
        Stmt_Block(2602, <<
          Stmt_Let(2603, "x", Expr_Literal(2602, NumberV(1))),
          Stmt_Block(2604, <<
            Stmt_Function(2605, "b", <<>>, <<
              Stmt_Print(2606, Expr_Variable(2603, "x")) >>),
            Stmt_Expression(2607, Expr_Assign(2604, "h", Expr_Variable(2605, "b"))) >>) >>),
        Stmt_Expression(2608, Expr_Call(2606, Expr_Variable(2607, "h"), <<>>)) >>]

\* a call of a global function from a block that declares a function of the
\* same name after the caller
Src_later_callee ==
    [text |-> "fn say() { print \"global\"; } { fn g() { say(); } fn say() { print \"block\"; } g(); }",
     lex_errors |-> <<>>,
     parse_errors |-> <<>>,
     statements |-> <<
        Stmt_Function(2701, "say", <<>>, <<
          Stmt_Print(2702, Expr_Literal(2701, StringV("global"))) >>),
        Stmt_Block(2703, <<
          Stmt_Function(2704, "g", <<>>, <<
            Stmt_Expression(2705, Expr_Call(2702, Expr_Variable(2703, "say"), <<>>)) >>),
          Stmt_Function(2706, "say", <<>>, <<
            Stmt_Print(2707, Expr_Literal(2704, StringV("block"))) >>),
          Stmt_Expression(2708, Expr_Call(2705, Expr_Variable(2706, "g"), <<>>)) >>) >>]

\* a global function called from a block that binds the name of its callee
\* to another function
Src_caller_callee ==
    [text |-> "fn k() { tell(); } fn tell() { print \"global\"; } { fn tell() { print \"block\"; } k(); }",
     lex_errors |-> <<>>,
     parse_errors |-> <<>>,
     statements |-> <<
        Stmt_Function(2801, "k", <<>>, <<
          Stmt_Expression(2802, Expr_Call(2801, Expr_Variable(2802, "tell"), <<>>)) >>),
        Stmt_Function(2803, "tell", <<>>, <<
          Stmt_Print(2804, Expr_Literal(2803, StringV("global"))) >>),
        Stmt_Block(2805, <<
          Stmt_Function(2806, "tell", <<>>, <<
            Stmt_Print(2807, Expr_Literal(2804, StringV("block"))) >>),
          Stmt_Expression(2808, Expr_Call(2805, Expr_Variable(2806, "k"), <<>>)) >>) >>]

Sources ==
    <<Src_closure_scope,
      Src_closure_outer,
      Src_escape_return,
      Src_escape_assign,
      Src_nested_error,
      Src_read_x,
      Src_assign_y,
      Src_single_recursion,
      Src_return_nested,
      Src_arity_user,
      Src_arity_typeof,
      Src_arity_sleep,
      Src_arity_clock,
      Src_truthy,
      Src_lex_error,
      Src_resolve_error,
      Src_three_errors,
      Src_block_scope,
      Src_shadowing,
      Src_block_assign,
      Src_mutual_recursion,
      Src_late_global,
      Src_redefined_callee,
      Src_deeper_call,
      Src_recursive_local,
      Src_deep_escape,
      Src_later_callee,
      Src_caller_callee>>

-----------------------------------------------------------------------------
(* The scanner of lexer.rs on a source given as its characters.  A String  *)
(* is indexed in two ways by the scanner: chars().nth(i) counts characters *)
(* and len() and slices count UTF-8 bytes; a call of unwrap() on None and  *)
(* a slice off a character boundary panic.                                 *)

\* The character U+00E9 takes two bytes, every other character here one
Utf8Len(c) == IF c = "U+00E9" THEN 2 ELSE 1

RECURSIVE ByteOffset(_, _)

\* The byte at which the character of index i (from 0) starts
ByteOffset(str, i) ==
    IF i = 0 THEN 0 ELSE ByteOffset(str, i - 1) + Utf8Len(str[i])

\* str.len()
String_len(str) == ByteOffset(str, Len(str))

\* str.chars().nth(i): <<c>> is Some(c) and <<>> is None
Chars_nth(str, i) == IF i < Len(str) THEN <<str[i + 1]>> ELSE <<>>

\* &str[a..b]: not ok is the panic of a range that is out of bounds, is
\* reversed or does not lie on character boundaries
String_slice(str, a, b) ==
    LET from == {i \in 0..Len(str) : ByteOffset(str, i) = a}
        to == {i \in 0..Len(str) : ByteOffset(str, i) = b}
    IN IF a > b \/ from = {} \/ to = {} THEN [ok |-> FALSE, text |-> <<>>]
       ELSE [ok |-> TRUE,
             text |-> SubSeq(str, (CHOOSE i \in from : TRUE) + 1,
                             CHOOSE i \in to : TRUE)]

KEYWORDS ==
    {[text |-> <<"a", "n", "d">>, kind |-> "And"],
     [text |-> <<"c", "l", "a", "s", "s">>, kind |-> "Class"],
     [text |-> <<"e", "l", "s", "e">>, kind |-> "Else"],
     [text |-> <<"f", "a", "l", "s", "e">>, kind |-> "False"],
     [text |-> <<"f", "n">>, kind |-> "Fn"],
     [text |-> <<"f", "o", "r">>, kind |-> "For"],
     [text |-> <<"i", "f">>, kind |-> "If"],
     [text |-> <<"l", "e", "t">>, kind |-> "Let"],
     [text |-> <<"n", "u", "l", "l">>, kind |-> "Null"],
     [text |-> <<"o", "r">>, kind |-> "Or"],
     [text |-> <<"p", "r", "i", "n", "t">>, kind |-> "Print"],
     [text |-> <<"r", "e", "t", "u", "r", "n">>, kind |-> "Return"],
     [text |-> <<"s", "u", "p", "e", "r">>, kind |-> "Super"],
     [text |-> <<"t", "h", "i", "s">>, kind |-> "This"],
     [text |-> <<"t", "r", "u", "e">>, kind |-> "True"],
     [text |-> <<"w", "h", "i", "l", "e">>, kind |-> "While"]}

AsciiDigits == {"0", "1", "2", "3", "4", "5", "6", "7", "8", "9"}

AsciiLetters ==
    {"a", "b", "c", "d", "e", "f", "g", "h", "i", "j", "k", "l", "m", "n", "o",
     "p", "q", "r", "s", "t", "u", "v", "w", "x", "y", "z", "A", "B", "C", "D",
     "E", "F", "G", "H", "I", "J", "K", "L", "M", "N", "O", "P", "Q", "R", "S",
     "T", "U", "V", "W", "X", "Y", "Z"}

\* text.parse::<f64>(): the digits of the number and how many of them follow
\* the point; not ok is Err, which unwrap() turns into a panic
ParseF64(text) ==
    LET points == {i \in 1..Len(text) : text[i] = "."}
        digits == {i \in 1..Len(text) : text[i] \in AsciiDigits}
    IN IF digits = {} \/ Cardinality(points) > 1
          \/ points \cup digits # 1..Len(text)
       THEN [ok |-> FALSE, digits |-> <<>>, scale |-> 0]
       ELSE [ok |-> TRUE,
             digits |-> SelectSeq(text, LAMBDA c : c # "."),
             scale |-> IF points = {} THEN 0
                       ELSE Len(text) - (CHOOSE i \in points : TRUE)]

\* turns is an observation field: for every turn of the loop of scan_tokens,
\* where its lexeme starts, where scan_token left the cursor, and how many
\* tokens and errors scan_token pushed
Scanner_new(str) ==
    [source |-> str, tokens |-> <<>>, start |-> 0, current |-> 0, line |-> 1,
     errors |-> <<>>, panicked |-> FALSE, turns |-> <<>>]

\* The thread panics: scan_tokens does not return
Scanner_panic(s) == [s EXCEPT !.panicked = TRUE]

Scanner_is_at_end(s) == s.current >= String_len(s.source)

Scanner_is_alphanumeric(c) == c \in AsciiLetters \cup AsciiDigits \cup {"_"}

Scanner_report_error(s, line, message) ==
    [s EXCEPT !.errors = Append(@, [span |-> line, message |-> message])]

\* format!("Unexpected character {}", c)
Scanner_unexpected(s, c) ==
    Scanner_report_error(s, s.line, <<"Unexpected character ", c>>)

\* The character read is c; "None" is the panic of unwrap()
Scanner_advance(s) ==
    LET c == Chars_nth(s.source, s.current) IN
    IF c = <<>> THEN [s |-> Scanner_panic(s), c |-> "None"]
    ELSE [s |-> [s EXCEPT !.current = @ + 1], c |-> c[1]]

Scanner_match_next(s, expected) ==
    IF Scanner_is_at_end(s) THEN [s |-> s, matched |-> FALSE]
    ELSE LET c == Chars_nth(s.source, s.current) IN
         IF c = <<>> THEN [s |-> Scanner_panic(s), matched |-> FALSE]
         ELSE IF c[1] # expected THEN [s |-> s, matched |-> FALSE]
         ELSE [s |-> [s EXCEPT !.current = @ + 1], matched |-> TRUE]

\* "NUL" is '\0'; "None" is the panic of unwrap()
Scanner_peek(s) ==
    IF Scanner_is_at_end(s) THEN "NUL"
    ELSE LET c == Chars_nth(s.source, s.current) IN
         IF c = <<>> THEN "None" ELSE c[1]

Scanner_peek_next(s) ==
    IF s.current + 1 >= String_len(s.source) THEN "NUL"
    ELSE LET c == Chars_nth(s.source, s.current + 1) IN
         IF c = <<>> THEN "None" ELSE c[1]

\* add_token that pushes the token without its text
Scanner_add_token_empty(s, p_type) ==
    [s EXCEPT !.tokens = Append(@, Token(p_type, <<>>, s.line))]

Scanner_add_token(s, p_type) ==
    LET text == String_slice(s.source, s.start, s.current) IN
    IF ~text.ok THEN Scanner_panic(s)
    ELSE [s EXCEPT !.tokens = Append(@, Token(p_type, text.text, s.line))]

\* add_token(TokenKind::String(value)) and add_token(TokenKind::Number(value))
Scanner_add_literal(s, p_type, value) ==
    LET pushed == Scanner_add_token(s, p_type) IN
    IF pushed.panicked THEN pushed
    ELSE [pushed EXCEPT !.tokens[Len(pushed.tokens)] =
             [t_type |-> p_type, lexeme |-> @.lexeme, span |-> @.span,
              literal |-> value]]

RECURSIVE Scanner_operator(_, _, _)

\* if self.match_next(c1) { add_token(k1) } else if ... else { add_token(kind) }
Scanner_operator(s, longer, kind) ==
    IF longer = <<>> THEN Scanner_add_token(s, kind)
    ELSE LET m == Scanner_match_next(s, longer[1][1]) IN
         IF m.s.panicked THEN m.s
         ELSE IF m.matched THEN Scanner_add_token(m.s, longer[1][2])
         ELSE Scanner_operator(s, Tail(longer), kind)

RECURSIVE Scanner_line_comment(_)

\* while self.peek() != '\n' && !self.is_at_end() { self.advance(); }
Scanner_line_comment(s) ==
    LET c == Scanner_peek(s) IN
    IF c = "None" THEN Scanner_panic(s)
    ELSE IF c # "\n" /\ ~Scanner_is_at_end(s)
    THEN LET a == Scanner_advance(s) IN
         IF a.s.panicked THEN a.s ELSE Scanner_line_comment(a.s)
    ELSE s

RECURSIVE Scanner_block_comment(_)

\* while !is_at_end() { if peek() == '\n' { line += 1 }
\*   if advance() == '*' && peek() == '/' { advance(); break; } }
Scanner_block_comment(s) ==
    IF Scanner_is_at_end(s) THEN s
    ELSE LET c == Scanner_peek(s) IN
         IF c = "None" THEN Scanner_panic(s)
         ELSE LET a == Scanner_advance(IF c = "\n" THEN [s EXCEPT !.line = @ + 1]
                                       ELSE s)
              IN IF a.s.panicked THEN a.s
                 ELSE IF a.c # "*" THEN Scanner_block_comment(a.s)
                 ELSE LET d == Scanner_peek(a.s) IN
                      IF d = "None" THEN Scanner_panic(a.s)
                      ELSE IF d = "/" THEN Scanner_advance(a.s).s
                      ELSE Scanner_block_comment(a.s)

RECURSIVE Scanner_string_loop(_)

\* while self.peek() != '"' && !self.is_at_end() { newline?; self.advance(); }
Scanner_string_loop(s) ==
    LET c == Scanner_peek(s) IN
    IF c = "None" THEN Scanner_panic(s)
    ELSE IF c # "\"" /\ ~Scanner_is_at_end(s)
    THEN LET a == Scanner_advance(IF c = "\n" THEN [s EXCEPT !.line = @ + 1] ELSE s)
         IN IF a.s.panicked THEN a.s ELSE Scanner_string_loop(a.s)
    ELSE s

Scanner_scan_string(s) ==
    LET body == Scanner_string_loop(s) IN
    IF body.panicked THEN body
    ELSE IF Scanner_is_at_end(body)
    THEN Scanner_report_error(body, body.line, <<"Unterminated string">>)
    ELSE LET a == Scanner_advance(body)
             value == String_slice(a.s.source, a.s.start + 1, a.s.current - 1)
         IN IF a.s.panicked THEN a.s
            ELSE IF ~value.ok THEN Scanner_panic(a.s)
            ELSE Scanner_add_literal(a.s, "String", value.text)

RECURSIVE Scanner_digits(_)

\* while self.peek().is_ascii_digit() { self.advance(); }
Scanner_digits(s) ==
    LET c == Scanner_peek(s) IN
    IF c = "None" THEN Scanner_panic(s)
    ELSE IF c \in AsciiDigits
    THEN LET a == Scanner_advance(s) IN
         IF a.s.panicked THEN a.s ELSE Scanner_digits(a.s)
    ELSE s

Scanner_scan_number(s) ==
    LET whole == Scanner_digits(s)
        Fraction(w) ==
            IF Scanner_peek(w) = "." /\ Scanner_peek_next(w) = "None"
            THEN Scanner_panic(w)
            ELSE IF Scanner_peek(w) = "." /\ Scanner_peek_next(w) \in AsciiDigits
            THEN Scanner_digits(Scanner_advance(w).s)
            ELSE w
        Number(n) ==
            IF n.panicked THEN n
            ELSE LET text == String_slice(n.source, n.start, n.current) IN
                 IF ~text.ok \/ ~ParseF64(text.text).ok THEN Scanner_panic(n)
                 ELSE Scanner_add_literal(n, "Number",
                                          [digits |-> ParseF64(text.text).digits,
                                           scale |-> ParseF64(text.text).scale])
    IN IF whole.panicked THEN whole ELSE Number(Fraction(whole))

RECURSIVE Scanner_alphanumerics(_)

\* while Scanner::is_alphanumeric(self.peek()) { self.advance(); }
Scanner_alphanumerics(s) ==
    LET c == Scanner_peek(s) IN
    IF c = "None" THEN Scanner_panic(s)
    ELSE IF Scanner_is_alphanumeric(c)
    THEN LET a == Scanner_advance(s) IN
         IF a.s.panicked THEN a.s ELSE Scanner_alphanumerics(a.s)
    ELSE s

Scanner_scan_identifier(s) ==
    LET word == Scanner_alphanumerics(s)
        text == String_slice(word.source, word.start, word.current)
        keyword == {k \in KEYWORDS : k.text = text.text}
    IN IF word.panicked THEN word
       ELSE IF ~text.ok THEN Scanner_panic(word)
       ELSE IF keyword # {} THEN Scanner_add_token(word, (CHOOSE k \in keyword : TRUE).kind)
       ELSE Scanner_add_token(word, "Identifier")

Scanner_scan_slash(s) ==
    LET line == Scanner_match_next(s, "/")
        block == Scanner_match_next(s, "*")
    IN IF line.s.panicked THEN line.s
       ELSE IF line.matched THEN Scanner_line_comment(line.s)
       ELSE IF block.matched THEN Scanner_block_comment(block.s)
       ELSE Scanner_operator(s, <<<<"=", "SlashEqual">>>>, "Slash")

Scanner_scan_token(s) ==
    LET a == Scanner_advance(s) IN
    IF a.s.panicked THEN a.s
    ELSE
    CASE a.c \in {" ", "\r", "\t"} -> a.s
      [] a.c = "\n" -> [a.s EXCEPT !.line = @ + 1]
      [] a.c = "(" -> Scanner_add_token(a.s, "LeftParen")
      [] a.c = ")" -> Scanner_add_token(a.s, "RightParen")
      [] a.c = "{" -> Scanner_add_token(a.s, "LeftBrace")
      [] a.c = "}" -> Scanner_add_token(a.s, "RightBrace")
      [] a.c = "," -> Scanner_add_token(a.s, "Comma")
      [] a.c = "." -> Scanner_add_token(a.s, "Dot")
      [] a.c = ";" -> Scanner_add_token(a.s, "Semicolon")
      [] a.c = "+" ->
            Scanner_operator(a.s, <<<<"=", "PlusEqual">>, <<"+", "PlusPlus">>>>, "Plus")
      [] a.c = "-" ->
            Scanner_operator(a.s, <<<<"=", "MinusEqual">>, <<"-", "MinusMinus">>>>, "Minus")
      [] a.c = "*" ->
            Scanner_operator(a.s, <<<<"=", "StarEqual">>>>, "Star")
      [] a.c = "!" ->
            Scanner_operator(a.s, <<<<"=", "BangEqual">>>>, "Bang")
      [] a.c = "=" ->
            Scanner_operator(a.s, <<<<"=", "EqualEqual">>>>, "Equal")
      [] a.c = "<" ->
            Scanner_operator(a.s, <<<<"=", "LessEqual">>>>, "Less")
      [] a.c = ">" ->
            Scanner_operator(a.s, <<<<"=", "GreaterEqual">>>>, "Greater")
      [] a.c = "/" -> Scanner_scan_slash(a.s)
      [] a.c = "\"" -> Scanner_scan_string(a.s)
      [] a.c \in AsciiDigits -> Scanner_scan_number(a.s)
      [] a.c \in AsciiLetters \cup {"_"} -> Scanner_scan_identifier(a.s)
      [] OTHER -> Scanner_unexpected(a.s, a.c)

\* One turn of the loop of scan_tokens, noted in turns
Scanner_turn(begun, after) ==
    [after EXCEPT !.turns =
        Append(@, [start |-> begun.start, current |-> after.current,
                   tokens |-> Len(after.tokens) - Len(begun.tokens),
                   errors |-> Len(after.errors) - Len(begun.errors)])]

RECURSIVE Scanner_scan_loop(_)

\* while !self.is_at_end() { self.start = self.current; self.scan_token() }
Scanner_scan_loop(s) ==
    IF s.panicked \/ Scanner_is_at_end(s) THEN s
    ELSE LET begun == [s EXCEPT !.start = s.current] IN
         Scanner_scan_loop(Scanner_turn(begun, Scanner_scan_token(begun)))

\* The scanner after scan_tokens: its tokens and errors are what is returned,
\* unless it panicked
Scanner_scan_tokens(s) ==
    LET scanned == Scanner_scan_loop(s) IN
    IF scanned.panicked THEN scanned
    ELSE [scanned EXCEPT !.tokens =
             Append(@, Token("EOF", <<>>,
                             IF @ = <<>> THEN 1 ELSE @[Len(@)].span))]

-----------------------------------------------------------------------------
(* Parser.  p is the Parser: tokens, current (the index of the next token, *)
(* from 0) and errors, together with expr_id, the counter EXPR_ID that     *)
(* Expr::new reads and advances, and stmt_id, which numbers the statements *)
(* for the event log.  A method that returns a Result gives                *)
(* [p, ok, value]: the parser after it and the Ok value, or the            *)
(* SpannedError when ok is FALSE.                                          *)

\* TokenKind::Number(num) and TokenKind::String(str) carry the literal
Token_Number(num, span) ==
    [t_type |-> "Number", lexeme |-> ToString(num), span |-> span, num |-> num]

Token_String(str, span) ==
    [t_type |-> "String", lexeme |-> str, span |-> span, str |-> str]

LIMIT_FN_ARGS == 255

ParseOk(p, value) == [p |-> p, ok |-> TRUE, value |-> value]

\* Err((&token, message).into())
ParseErr(p, token, message) ==
    [p |-> p, ok |-> FALSE, value |-> [span |-> token.span, message |-> message]]

\* Some(value) of an Ok value: <<value>>, and <<>> is None
ParseSome(r) == IF r.ok THEN [r EXCEPT !.value = <<@>>] ELSE r

Parser_new(token_list) ==
    [tokens |-> token_list, current |-> 0, errors |-> <<>>, expr_id |-> 0, stmt_id |-> 0,
     progress |-> <<>>]

\* Expr::new that leaves EXPR_ID as it is
Expr_new_repeating(p, node) == ParseOk(p, [node EXCEPT !.id = p.expr_id])

\* Expr::new: the node takes the value of EXPR_ID, which goes up by one
Expr_new(p, node) ==
    ParseOk([p EXCEPT !.expr_id = @ + 1], [node EXCEPT !.id = p.expr_id])

\* A statement node, numbered for the event log
Stmt_new(p, node) ==
    ParseOk([p EXCEPT !.stmt_id = @ + 1], [node EXCEPT !.sid = p.stmt_id + 1])

\* One turn of a loop over declaration(): the cursor at its start and end
Parser_turn(p, after, loop) ==
    [after EXCEPT !.progress =
        Append(@, [loop |-> loop, before |-> p.current, after |-> after.current])]

Parser_peek(p) == p.tokens[p.current + 1]

Parser_previous(p) == p.tokens[p.current]

\* is_at_end that takes the token before EOF for the end
Parser_is_at_end_early(p) == p.current + 2 >= Len(p.tokens)

Parser_is_at_end(p) == Parser_peek(p).t_type = "EOF"

\* The parser after advance(); the token it returns is its previous()
Parser_advance(p) == IF ~Parser_is_at_end(p) THEN [p EXCEPT !.current = @ + 1] ELSE p

Parser_check(p, t_type) ==
    IF Parser_is_at_end(p) THEN FALSE ELSE Parser_peek(p).t_type = t_type

Parser_match_next(p, types) ==
    IF \E t_type \in types : Parser_check(p, t_type)
    THEN [p |-> Parser_advance(p), matched |-> TRUE]
    ELSE [p |-> p, matched |-> FALSE]

Parser_consume(p, t_type, message) ==
    IF Parser_check(p, t_type)
    THEN ParseOk(Parser_advance(p), Parser_peek(p))
    ELSE ParseErr(p, Parser_peek(p), message)

\* report_error that pushes the error twice
Parser_report_error_twice(p, e) == [p EXCEPT !.errors = Append(Append(@, e), e)]

\* self.errors.push(e)
Parser_report_error(p, e) == [p EXCEPT !.errors = Append(@, e)]

RECURSIVE Parser_synchronize_loop(_)

\* while !self.is_at_end() { ... self.advance(); }
Parser_synchronize_loop(p) ==
    IF Parser_is_at_end(p) THEN p
    ELSE IF Parser_previous(p).t_type = "Semicolon" THEN p
    ELSE IF Parser_peek(p).t_type \in {"Class", "Fn", "Let", "For", "If", "While", "Print",
                                       "Return"}
    THEN p
    ELSE Parser_synchronize_loop(Parser_advance(p))

Parser_synchronize(p) == Parser_synchronize_loop(Parser_advance(p))

RECURSIVE Parser_rule(_, _)
RECURSIVE Parser_expression(_)
RECURSIVE Parser_assignment(_)
RECURSIVE Parser_compound_assign(_)
RECURSIVE Parser_binary_loop(_, _, _)
RECURSIVE Parser_operand(_, _)
RECURSIVE Parser_logic_or(_)
RECURSIVE Parser_logic_and(_)
RECURSIVE Parser_equality(_)
RECURSIVE Parser_comparison(_)
RECURSIVE Parser_term(_)
RECURSIVE Parser_factor(_)
RECURSIVE Parser_unary(_)
RECURSIVE Parser_inc_dec(_)
RECURSIVE Parser_call(_)
RECURSIVE Parser_call_loop(_, _)
RECURSIVE Parser_finish_call(_, _)
RECURSIVE Parser_arguments(_, _)
RECURSIVE Parser_primary(_)
RECURSIVE Parser_declaration(_)
RECURSIVE Parser_statement(_)
RECURSIVE Parser_block(_)
RECURSIVE Parser_block_loop(_, _)
RECURSIVE Parser_fn_declaration(_)
RECURSIVE Parser_for_stmt(_)

Parser_primary(p) ==
    LET token == Parser_peek(p) IN
    CASE token.t_type = "False" ->
           Expr_new(Parser_advance(p), Expr_Literal(0, BoolV(FALSE)))
      [] token.t_type = "True" ->
           Expr_new(Parser_advance(p), Expr_Literal(0, BoolV(TRUE)))
      [] token.t_type = "Null" ->
           Expr_new(Parser_advance(p), Expr_Literal(0, NullV))
      [] token.t_type = "Number" ->
           Expr_new(Parser_advance(p), Expr_Literal(0, NumberV(token.num)))
      [] token.t_type = "String" ->
           Expr_new(Parser_advance(p), Expr_Literal(0, StringV(token.str)))
      [] token.t_type = "LeftParen" ->
           LET Closed(e, c) ==
                   IF ~c.ok THEN c ELSE Expr_new(c.p, Expr_Grouping(0, e.value))
               Inner(e) ==
                   IF ~e.ok THEN e
                   ELSE Closed(e, Parser_consume(e.p, "RightParen",
                                                 "Expected ')' after expression."))
           IN Inner(Parser_rule("expression", Parser_advance(p)))
      [] token.t_type = "Identifier" ->
           Expr_new(Parser_advance(p), Expr_Variable(0, token.lexeme))
      [] token.t_type \in {"BangEqual", "EqualEqual", "Greater", "GreaterEqual", "Less",
                           "LessEqual", "Plus", "Slash", "Star"} ->
           ParseErr(Parser_advance(p), token,
                    "Binary operator '" \o token.lexeme \o "' missing operand(s)")
      [] OTHER -> ParseErr(p, token, "Expected expression.")

\* loop { ...; arguments.push(self.expression()?); if !match(Comma) { break } }
Parser_arguments(p, arguments) ==
    LET p1 == IF Len(arguments) >= LIMIT_FN_ARGS
              THEN Parser_report_error(
                       p, [span |-> Parser_peek(p).span,
                           message |-> "Can't have more than 255 arguments."])
              ELSE p
        Pushed(a) ==
            IF ~a.ok THEN a
            ELSE LET m == Parser_match_next(a.p, {"Comma"}) IN
                 IF m.matched THEN Parser_arguments(m.p, Append(arguments, a.value))
                 ELSE ParseOk(m.p, Append(arguments, a.value))
    IN Pushed(Parser_rule("expression", p1))

Parser_finish_call(p, ex) ==
    LET Paren(args, c) ==
            IF ~c.ok THEN c ELSE Expr_new(c.p, Expr_Call(0, ex, args.value))
        Args(a) ==
            IF ~a.ok THEN a
            ELSE Paren(a, Parser_consume(a.p, "RightParen", "Expected ')' after arguments."))
    IN IF ~Parser_check(p, "RightParen")
       THEN Args(Parser_arguments(p, <<>>))
       ELSE Args(ParseOk(p, <<>>))

\* loop { if match(LeftParen) { ex = self.finish_call(&ex)?; } else { break; } }
Parser_call_loop(p, ex) ==
    LET m == Parser_match_next(p, {"LeftParen"})
        Finished(c) == IF ~c.ok THEN c ELSE Parser_call_loop(c.p, c.value)
    IN IF m.matched THEN Finished(Parser_finish_call(m.p, ex)) ELSE ParseOk(p, ex)

Parser_call(p) ==
    LET Primary(e) == IF ~e.ok THEN e ELSE Parser_call_loop(e.p, e.value)
    IN Primary(Parser_primary(p))

Parser_inc_dec(p) ==
    LET Expanded(e, m) ==
            LET op == Parser_previous(m.p)
                op_expanded == [op EXCEPT !.t_type = IF op.t_type = "PlusPlus"
                                                     THEN "Plus" ELSE "Minus"]
                one == Expr_new(m.p, Expr_Literal(0, NumberV(1)))
                right == Expr_new(one.p, Expr_Binary(0, e.value, op_expanded.t_type,
                                                     one.value))
            IN IF e.value.kind = "Variable"
               THEN Expr_new(right.p, Expr_Assign(0, e.value.name, right.value))
               ELSE ParseOk(Parser_report_error(
                                right.p,
                                [span |-> op_expanded.span,
                                 message |-> "Invalid increment/decrement target."]),
                            e.value)
        Called(e) ==
            IF ~e.ok THEN e
            ELSE LET m == Parser_match_next(e.p, {"PlusPlus", "MinusMinus"}) IN
                 IF m.matched THEN Expanded(e, m) ELSE e
    IN Called(Parser_call(p))

Parser_unary(p) ==
    LET m == Parser_match_next(p, {"Bang", "Minus"})
        Operand(e) ==
            IF ~e.ok THEN e
            ELSE Expr_new(e.p, Expr_Unary(0, Parser_previous(m.p).t_type, e.value))
    IN IF m.matched THEN Operand(Parser_rule("unary", m.p)) ELSE Parser_inc_dec(p)

\* The operators a level of the grammar matches
LevelOps(level) ==
    CASE level = "logic_or" -> {"Or"}
      [] level = "logic_and" -> {"And"}
      [] level = "equality" -> {"BangEqual", "EqualEqual"}
      [] level = "comparison" -> {"Greater", "GreaterEqual", "Less", "LessEqual"}
      [] level = "term" -> {"Minus", "Plus"}
      [] level = "factor" -> {"Slash", "Star"}

\* The method a level calls for its operands
Parser_operand(p, level) ==
    CASE level = "logic_or" -> Parser_rule("logic_and", p)
      [] level = "logic_and" -> Parser_rule("equality", p)
      [] level = "equality" -> Parser_rule("comparison", p)
      [] level = "comparison" -> Parser_rule("term", p)
      [] level = "term" -> Parser_rule("factor", p)
      [] level = "factor" -> Parser_rule("unary", p)

\* while self.match_next(ops) { op = previous(); right = operand()?;
\* ex = Expr::binary(ex, op, right) }, Expr::logical for or and and
Parser_binary_loop(p, ex, level) ==
    LET m == Parser_match_next(p, LevelOps(level))
        Right(r) ==
            IF ~r.ok THEN r
            ELSE LET op == Parser_previous(m.p)
                     n == Expr_new(r.p, IF level \in {"logic_or", "logic_and"}
                                        THEN Expr_Logical(0, ex, op.t_type, r.value)
                                        ELSE Expr_Binary(0, ex, op.t_type, r.value))
                 IN Parser_binary_loop(n.p, n.value, level)
    IN IF m.matched THEN Right(Parser_operand(m.p, level)) ELSE ParseOk(p, ex)

Parser_factor(p) ==
    LET First(e) == IF ~e.ok THEN e ELSE Parser_binary_loop(e.p, e.value, "factor")
    IN First(Parser_unary(p))

Parser_term(p) ==
    LET First(e) == IF ~e.ok THEN e ELSE Parser_binary_loop(e.p, e.value, "term")
    IN First(Parser_factor(p))

Parser_comparison(p) ==
    LET First(e) == IF ~e.ok THEN e ELSE Parser_binary_loop(e.p, e.value, "comparison")
    IN First(Parser_term(p))

Parser_equality(p) ==
    LET First(e) == IF ~e.ok THEN e ELSE Parser_binary_loop(e.p, e.value, "equality")
    IN First(Parser_comparison(p))

Parser_logic_and(p) ==
    LET First(e) == IF ~e.ok THEN e ELSE Parser_binary_loop(e.p, e.value, "logic_and")
    IN First(Parser_equality(p))

Parser_logic_or(p) ==
    LET First(e) == IF ~e.ok THEN e ELSE Parser_binary_loop(e.p, e.value, "logic_or")
    IN First(Parser_logic_and(p))

Parser_compound_assign(p) ==
    LET Expanded(e, m) ==
            LET op_assign == Parser_previous(m.p)
                op_arithmetic ==
                    CASE op_assign.t_type = "PlusEqual" -> "Plus"
                      [] op_assign.t_type = "MinusEqual" -> "Minus"
                      [] op_assign.t_type = "StarEqual" -> "Star"
                      [] op_assign.t_type = "SlashEqual" -> "Slash"
                Right(r) ==
                    IF ~r.ok THEN r
                    ELSE LET right == Expr_new(r.p, Expr_Binary(0, e.value, op_arithmetic,
                                                                r.value))
                         IN IF e.value.kind = "Variable"
                            THEN Expr_new(right.p,
                                          Expr_Assign(0, e.value.name, right.value))
                            ELSE ParseOk(Parser_report_error(
                                             right.p,
                                             [span |-> op_assign.span,
                                              message |-> "Invalid assignment target."]),
                                         e.value)
            IN Right(Parser_rule("assignment", m.p))
        Left(e) ==
            IF ~e.ok THEN e
            ELSE LET m == Parser_match_next(e.p, {"PlusEqual", "MinusEqual", "StarEqual",
                                                  "SlashEqual"})
                 IN IF m.matched THEN Expanded(e, m) ELSE e
    IN Left(Parser_logic_or(p))

Parser_assignment(p) ==
    LET Assigned(e, m) ==
            LET equals == Parser_previous(m.p)
                Value(v) ==
                    IF ~v.ok THEN v
                    ELSE IF e.value.kind = "Variable"
                    THEN Expr_new(v.p, Expr_Assign(0, e.value.name, v.value))
                    ELSE ParseOk(Parser_report_error(
                                     v.p, [span |-> equals.span,
                                           message |-> "Invalid assignment target."]),
                                 e.value)
            IN Value(Parser_rule("assignment", m.p))
        Left(e) ==
            IF ~e.ok THEN e
            ELSE LET m == Parser_match_next(e.p, {"Equal"}) IN
                 IF m.matched THEN Assigned(e, m) ELSE e
    IN Left(Parser_compound_assign(p))

Parser_expression(p) == Parser_assignment(p)

Parser_expr_stmt(p) ==
    LET Semi(e, c) == IF ~c.ok THEN c ELSE Stmt_new(c.p, Stmt_Expression(0, e.value))
        Expression(e) ==
            IF ~e.ok THEN e
            ELSE Semi(e, Parser_consume(e.p, "Semicolon", "Expected ';' after expression."))
    IN Expression(Parser_rule("expression", p))

\* while !check(RightBrace) && !is_at_end() { if let Some(s) = declaration() ... }
Parser_block_loop(p, stmts) ==
    LET Declared(d) ==
            Parser_block_loop(Parser_turn(p, d.p, "block"),
                              IF d.some THEN Append(stmts, d.value) ELSE stmts)
    IN IF ~Parser_check(p, "RightBrace") /\ ~Parser_is_at_end(p)
       THEN Declared(Parser_rule("declaration", p))
       ELSE [p |-> p, stmts |-> stmts]

Parser_block(p) ==
    LET Body(b) ==
            LET c == Parser_consume(b.p, "RightBrace", "Excepted '}' after block.") IN
            IF ~c.ok THEN c ELSE Stmt_new(c.p, Stmt_Block(0, b.stmts))
    IN Body(Parser_block_loop(Parser_advance(p), <<>>))

Parser_return_stmt(p) ==
    LET Semi(v, c) == IF ~c.ok THEN c ELSE Stmt_new(c.p, Stmt_Return(0, v.value))
        Value(v) ==
            IF ~v.ok THEN v
            ELSE Semi(v, Parser_consume(v.p, "Semicolon", "Expected ';' after return value."))
    IN IF ~Parser_check(Parser_advance(p), "Semicolon")
       THEN Value(Parser_rule("expression", Parser_advance(p)))
       ELSE Value(Expr_new(Parser_advance(p), Expr_Literal(0, NullV)))

Parser_print_stmt(p) ==
    LET Semi(e, c) == IF ~c.ok THEN c ELSE Stmt_new(c.p, Stmt_Print(0, e.value))
        Expression(e) ==
            IF ~e.ok THEN e
            ELSE Semi(e, Parser_consume(e.p, "Semicolon", "Expected ';' after value."))
    IN Expression(Parser_rule("expression", Parser_advance(p)))

Parser_if_stmt(p) ==
    LET Else(e, t, s) ==
            IF ~s.ok THEN s ELSE Stmt_new(s.p, Stmt_If(0, e.value, t.value, <<s.value>>))
        Then(e, t) ==
            IF ~t.ok THEN t
            ELSE LET m == Parser_match_next(t.p, {"Else"}) IN
                 IF m.matched THEN Else(e, t, Parser_rule("statement", m.p))
                 ELSE Stmt_new(m.p, Stmt_If(0, e.value, t.value, <<>>))
        Closed(e, c) == IF ~c.ok THEN c ELSE Then(e, Parser_rule("statement", c.p))
        Condition(e) ==
            IF ~e.ok THEN e
            ELSE Closed(e, Parser_consume(e.p, "RightParen",
                                          "Expected ')' after if condition."))
        Opened(c) == IF ~c.ok THEN c ELSE Condition(Parser_rule("expression", c.p))
    IN Opened(Parser_consume(Parser_advance(p), "LeftParen", "Expected '(' after 'if'."))

Parser_while_stmt(p) ==
    LET Body(e, b) == IF ~b.ok THEN b ELSE Stmt_new(b.p, Stmt_While(0, e.value, b.value))
        Closed(e, c) == IF ~c.ok THEN c ELSE Body(e, Parser_rule("statement", c.p))
        Condition(e) ==
            IF ~e.ok THEN e
            ELSE Closed(e, Parser_consume(e.p, "RightParen",
                                          "Expected ')' after while condition."))
        Opened(c) == IF ~c.ok THEN c ELSE Condition(Parser_rule("expression", c.p))
    IN Opened(Parser_consume(Parser_advance(p), "LeftParen",
                             "Expected '(' after 'while'."))

Parser_var_declaration(p) ==
    LET Semi(name, v, c) ==
            IF ~c.ok THEN c ELSE Stmt_new(c.p, Stmt_Let(0, name.lexeme, v.value))
        Initializer(name, v) ==
            IF ~v.ok THEN v
            ELSE Semi(name, v, Parser_consume(v.p, "Semicolon",
                                              "Expect ';' after variable declaration"))
        Named(c) ==
            IF ~c.ok THEN c
            ELSE LET null == Expr_new(c.p, Expr_Literal(0, NullV))
                     m == Parser_match_next(null.p, {"Equal"})
                 IN IF m.matched THEN Initializer(c.value, Parser_rule("expression", m.p))
                    ELSE Initializer(c.value, ParseOk(m.p, null.value))
    IN Named(Parser_consume(Parser_advance(p), "Identifier", "Expected variable name."))

Parser_for_stmt(p) ==
    LET Desugar(initializer, condition, increment, b) ==
            IF ~b.ok THEN b
            ELSE LET body ==
                         IF increment = <<>> THEN b
                         ELSE LET inc == Stmt_new(b.p, Stmt_Expression(0, increment[1]))
                              IN IF b.value.kind = "Block"
                                 THEN ParseOk(inc.p,
                                              [b.value EXCEPT
                                                  !.statements = Append(@, inc.value)])
                                 ELSE Stmt_new(inc.p,
                                               Stmt_Block(0, <<b.value, inc.value>>))
                     while == Stmt_new(body.p, Stmt_While(0, condition, body.value))
                 IN IF initializer # <<>>
                    THEN Stmt_new(while.p, Stmt_Block(0, <<initializer[1], while.value>>))
                    ELSE while
        Clauses(initializer, condition, increment, c) ==
            IF ~c.ok THEN c
            ELSE Desugar(initializer, condition, increment, Parser_rule("statement", c.p))
        Increment(initializer, condition, i) ==
            IF ~i.ok THEN i
            ELSE Clauses(initializer, condition, i.value,
                         Parser_consume(i.p, "RightParen",
                                        "Expected ')' after for clauses."))
        Semi(initializer, condition, c) ==
            IF ~c.ok THEN c
            ELSE IF ~Parser_check(c.p, "RightParen")
            THEN Increment(initializer, condition, ParseSome(Parser_rule("expression", c.p)))
            ELSE Increment(initializer, condition, ParseOk(c.p, <<>>))
        Condition(initializer, e) ==
            IF ~e.ok THEN e
            ELSE Semi(initializer, e.value,
                      Parser_consume(e.p, "Semicolon", "Expected ';' after loop condition."))
        Initializer(i) ==
            IF ~i.ok THEN i
            ELSE IF ~Parser_check(i.p, "Semicolon")
            THEN Condition(i.value, Parser_rule("expression", i.p))
            ELSE Condition(i.value, Expr_new(i.p, Expr_Literal(0, BoolV(TRUE))))
        Opened(c) ==
            IF ~c.ok THEN c
            ELSE CASE Parser_peek(c.p).t_type = "Semicolon" ->
                        Initializer(ParseOk(Parser_advance(c.p), <<>>))
                   [] Parser_peek(c.p).t_type = "Let" ->
                        Initializer(ParseSome(Parser_rule("var_declaration", c.p)))
                   [] OTHER -> Initializer(ParseSome(Parser_rule("expr_stmt", c.p)))
    IN Opened(Parser_consume(Parser_advance(p), "LeftParen", "Expected '(' after 'for'."))

RECURSIVE Parser_parameters(_, _)

\* loop { ...; parameters.push(consume(Identifier)?); if !match(Comma) { break } }
Parser_parameters(p, parameters) ==
    LET p1 == IF Len(parameters) >= LIMIT_FN_ARGS
              THEN Parser_report_error(
                       p, [span |-> Parser_peek(p).span,
                           message |-> "Can't have more than 255 parameters."])
              ELSE p
        c == Parser_consume(p1, "Identifier", "Expected parameter name.")
        m == Parser_match_next(c.p, {"Comma"})
    IN IF ~c.ok THEN c
       ELSE IF m.matched THEN Parser_parameters(m.p, Append(parameters, c.value.lexeme))
       ELSE ParseOk(m.p, Append(parameters, c.value.lexeme))

Parser_fn_declaration(p) ==
    LET Body(name, parameters, b) ==
            IF ~b.ok THEN b
            ELSE IF b.value.kind # "Block"
            THEN ParseErr(b.p, Parser_peek(b.p), "Incomplete function body.")
            ELSE Stmt_new(b.p, Stmt_Function(0, name.lexeme, parameters.value,
                                             b.value.statements))
        Closed(name, parameters, c) ==
            IF ~c.ok THEN c
            ELSE IF ~Parser_check(c.p, "LeftBrace")
            THEN ParseErr(c.p, Parser_peek(c.p), "Expected '{' before function body.")
            ELSE Body(name, parameters, Parser_rule("block", c.p))
        Parameters(name, parameters) ==
            IF ~parameters.ok THEN parameters
            ELSE Closed(name, parameters,
                        Parser_consume(parameters.p, "RightParen",
                                       "Expected ')' after parameters."))
        Opened(name, c) ==
            IF ~c.ok THEN c
            ELSE IF ~Parser_check(c.p, "RightParen")
            THEN Parameters(name, Parser_parameters(c.p, <<>>))
            ELSE Parameters(name, ParseOk(c.p, <<>>))
        Named(name) ==
            IF ~name.ok THEN name
            ELSE Opened(name.value,
                        Parser_consume(name.p, "LeftParen",
                                       "Expected '(' after function name."))
    IN Named(Parser_consume(Parser_advance(p), "Identifier", "Expected function name."))

Parser_statement(p) ==
    LET kind == Parser_peek(p).t_type IN
    CASE kind = "LeftBrace" -> Parser_block(p)
      [] kind = "Return" -> Parser_return_stmt(p)
      [] kind = "Print" -> Parser_print_stmt(p)
      [] kind = "If" -> Parser_if_stmt(p)
      [] kind = "While" -> Parser_while_stmt(p)
      [] kind = "For" -> Parser_for_stmt(p)
      [] OTHER -> Parser_expr_stmt(p)

\* Some(stmt) is [some |-> TRUE, value |-> stmt]; an Err is synchronized past
\* and then recorded, and the answer is None
Parser_declaration(p) ==
    LET kind == Parser_peek(p).t_type
        Handled(stmt) ==
            IF stmt.ok THEN [p |-> stmt.p, some |-> TRUE, value |-> stmt.value]
            ELSE [p |-> Parser_report_error(Parser_synchronize(stmt.p), stmt.value),
                  some |-> FALSE, value |-> <<>>]
    IN Handled(CASE kind = "Let" -> Parser_var_declaration(p)
                 [] kind = "Fn" -> Parser_fn_declaration(p)
                 [] OTHER -> Parser_statement(p))

\* self.<rule>(): the calls by which the grammar's rules come back to a rule
\* that is or may be in progress go through one operator
Parser_rule(rule, p) ==
    CASE rule = "declaration" -> Parser_declaration(p)
      [] rule = "statement" -> Parser_statement(p)
      [] rule = "block" -> Parser_block(p)
      [] rule = "var_declaration" -> Parser_var_declaration(p)
      [] rule = "expr_stmt" -> Parser_expr_stmt(p)
      [] rule = "expression" -> Parser_expression(p)
      [] rule = "assignment" -> Parser_assignment(p)
      [] rule = "logic_and" -> Parser_logic_and(p)
      [] rule = "equality" -> Parser_equality(p)
      [] rule = "comparison" -> Parser_comparison(p)
      [] rule = "term" -> Parser_term(p)
      [] rule = "factor" -> Parser_factor(p)
      [] rule = "unary" -> Parser_unary(p)

RECURSIVE Parser_parse_loop(_, _)

\* while !self.is_at_end() { if let Some(s) = self.declaration() { push } }
Parser_parse_loop(p, stmts) ==
    LET Declared(d) ==
            Parser_parse_loop(Parser_turn(p, d.p, "parse"),
                              IF d.some THEN Append(stmts, d.value) ELSE stmts)
    IN IF ~Parser_is_at_end(p) THEN Declared(Parser_rule("declaration", p))
       ELSE [p |-> p, statements |-> stmts, errors |-> p.errors]

\* (statements, self.errors.clone().into())
Parser_parse(p) == Parser_parse_loop(p, <<>>)

-----------------------------------------------------------------------------
(* The driver: run_prompt reads a line and run() takes it through the      *)
(* scanner, the parser, the resolver, the check of the merged batch and    *)
(* interpret().                                                            *)

\* SystemTime::now() as LcClock reads it during one interpret()
ClockReadings == {1700000000, 1700000001}

\* merge that puts the later stage's errors in front of the batch
TranslationErrors_merge_front(batch, other) == other \o batch

TranslationErrors_merge(batch, other) == batch \o other

TranslationErrors_has_errors(batch) == batch # <<>>

Init ==
    /\ context = Interpreter_new
    /\ pc = "prompt"
    /\ input = 0
    /\ source = <<>>
    /\ scanner = Scanner_new(<<>>)
    /\ tokens_ok = FALSE
    /\ tokens = <<>>
    /\ statements = <<>>
    /\ parser = Parser_new(<<>>)
    /\ resolver = Resolver_new(<<>>)
    /\ issues = <<>>
    /\ result = [k |-> "None", message |-> "", errors |-> <<>>]
    /\ before = Interpreter_new
    /\ log = <<>>
    /\ runs = 0
    /\ index = 1

\* run_prompt reads a line and calls run(buffer, &mut context)
ReadLine(s) ==
    /\ pc = "prompt"
    /\ runs < MaxRuns
    /\ input' = s
    /\ issues' = <<>>
    /\ scanner' = Scanner_new(<<>>)
    /\ tokens_ok' = FALSE
    /\ statements' = <<>>
    /\ parser' = [Parser_new(<<>>) EXCEPT !.expr_id = parser.expr_id]
    /\ resolver' = Resolver_new(<<>>)
    /\ before' = context
    /\ log' = <<>>
    /\ runs' = runs + 1
    /\ index' = 1
    /\ pc' = "lex"
    /\ UNCHANGED <<context, source, result, tokens>>

\* run_prompt reads a line that the scanner turns into the tokens of line
\* without a lex error
ReadTokens(line) ==
    /\ pc = "prompt"
    /\ runs < MaxRuns
    /\ input' = 0
    /\ tokens' = line
    /\ issues' = <<>>
    /\ tokens_ok' = TRUE
    /\ statements' = <<>>
    /\ parser' = [Parser_new(<<>>) EXCEPT !.expr_id = parser.expr_id]
    /\ resolver' = Resolver_new(<<>>)
    /\ before' = context
    /\ log' = <<>>
    /\ runs' = runs + 1
    /\ index' = 1
    /\ pc' = "parse"
    /\ UNCHANGED <<context, source, scanner, result>>

\* The messages of a batch of SpannedErrors
Messages(errors) == [i \in 1..Len(errors) |-> errors[i].message]

\* let (tokens, mut errs) = Scanner::new(source).scan_tokens(); issues.merge(errs)
Lex ==
    /\ pc = "lex"
    /\ IF input = 0
       THEN LET Scanned(scanned) ==
                    /\ scanner' = scanned
                    /\ tokens_ok' = ~scanned.panicked
                    /\ issues' = IF scanned.panicked THEN issues
                                 ELSE TranslationErrors_merge(issues, Messages(scanned.errors))
                    /\ pc' = IF scanned.panicked THEN "panicked" ELSE "parse"
            IN  Scanned(Scanner_scan_tokens(Scanner_new(source)))
       ELSE /\ tokens_ok' = TRUE
            /\ issues' = TranslationErrors_merge(issues, Sources[input].lex_errors)
            /\ pc' = "parse"
            /\ UNCHANGED scanner
    /\ UNCHANGED <<context, input, source, tokens, statements, parser, resolver, result,
                   before, log, runs, index>>

\* let (statements, mut errs) = Parser::new(tokens).parse(); issues.merge(errs)
\* EXPR_ID is a static: it goes on from where the parser before left it
Parse ==
    /\ pc = "parse"
    /\ LET parsed == IF tokens # <<>>
                     THEN Parser_parse([Parser_new(tokens) EXCEPT
                                           !.expr_id = parser.expr_id])
                     ELSE [p |-> parser,
                           statements |-> Sources[input].statements,
                           errors |-> [i \in 1..Len(Sources[input].parse_errors) |->
                                          [span |-> 0,
                                           message |-> Sources[input].parse_errors[i]]]]
       IN /\ parser' = parsed.p
          /\ statements' = parsed.statements
          /\ issues' = TranslationErrors_merge(issues, Messages(parsed.errors))
    /\ pc' = "resolve"
    /\ UNCHANGED <<context, input, source, scanner, tokens_ok, tokens, resolver, result,
                   before, log, runs, index>>

Resolve ==
    /\ pc = "resolve"
    /\ LET r == Resolver_resolve(Resolver_new(context.locals), statements) IN
         /\ context' = [context EXCEPT !.locals = r.locals]
         /\ issues' = TranslationErrors_merge(issues, r.errors)
         /\ resolver' = r
    /\ pc' = "check"
    /\ UNCHANGED <<input, source, scanner, tokens_ok, tokens, statements, parser, result,
                   before, log, runs, index>>

\* issues.check()?
Check ==
    /\ pc = "check"
    /\ IF TranslationErrors_has_errors(issues)
       THEN /\ result' = [k |-> "TranslationErrors", message |-> "", errors |-> issues]
            /\ pc' = "prompt"
       ELSE /\ pc' = "interpret"
            /\ UNCHANGED result
    /\ UNCHANGED <<context, input, source, scanner, tokens_ok, tokens, statements, parser,
                   resolver, issues, before, log, runs, index>>

\* context.interpret(statements)?, one turn of its loop at a time
Interpret ==
    /\ pc = "interpret"
    /\ \E now \in ClockReadings :
         LET it == [environment |-> context.environment, locals |-> context.locals,
                    output |-> context.output, slept |-> context.slept,
                    log |-> log, lvl |-> 0, now |-> now]
             a == Interpreter_interpret(it, statements, index)
         IN /\ context' = [environment |-> a.it.environment, locals |-> a.it.locals,
                           output |-> a.it.output, slept |-> a.it.slept]
            /\ log' = a.it.log
            /\ IF a.k = "Next"
               THEN /\ index' = index + 1
                    /\ UNCHANGED <<result, pc>>
               ELSE /\ result' = [k |-> a.k, message |-> a.message, errors |-> <<>>]
                    /\ pc' = IF a.k = "Panic" THEN "panicked" ELSE "prompt"
                    /\ UNCHANGED index
    /\ UNCHANGED <<input, source, scanner, tokens_ok, tokens, statements, parser, resolver,
                   issues, before, runs>>

Next ==
    \/ \E s \in 1..Len(Sources) : ReadLine(s)
    \/ Lex
    \/ Parse
    \/ Resolve
    \/ Check
    \/ Interpret

Spec == Init /\ [][Next]_vars

-----------------------------------------------------------------------------
(* The parser on token lists: Parser::new(tokens).parse() for for          *)
(* statements with every combination of clauses, for compound assignments  *)
(* and increments on several targets, and for lists of statements of which *)
(* one is malformed.                                                       *)

T(t_type, lexeme) == Token(t_type, lexeme, 0)

\* The span of a token is its position in the list
Spanned(token_list) ==
    [i \in 1..Len(token_list) |-> [token_list[i] EXCEPT !.span = i]]

ForInits ==
    {<<T("Semicolon", ";")>>,
     <<T("Let", "let"), T("Identifier", "x"), T("Equal", "="), Token_Number(0, 0),
       T("Semicolon", ";")>>,
     <<T("Identifier", "x"), T("Equal", "="), Token_Number(0, 0), T("Semicolon", ";")>>}

ForConds == {<<>>, <<T("Identifier", "x"), T("Less", "<"), Token_Number(2, 0)>>}

ForIncs ==
    {<<>>,
     <<T("Identifier", "x"), T("PlusPlus", "++")>>,
     <<T("Identifier", "x"), T("PlusEqual", "+="), Token_Number(1, 0)>>}

ForBodies ==
    {<<T("Print", "print"), T("Identifier", "x"), T("Semicolon", ";")>>,
     <<T("LeftBrace", "{"), T("Print", "print"), T("Identifier", "x"),
       T("Semicolon", ";"), T("RightBrace", "}")>>,
     <<T("LeftBrace", "{"), T("Let", "let"), T("Identifier", "x"), T("Equal", "="),
       Token_Number(5, 0), T("Semicolon", ";"), T("Print", "print"),
       T("Identifier", "x"), T("Semicolon", ";"), T("RightBrace", "}")>>,
     <<T("LeftBrace", "{"), T("RightBrace", "}")>>}

\* for ( init cond ; inc ) body
ForTokens(init, cond, inc, body) ==
    Spanned(<<T("For", "for"), T("LeftParen", "(")>> \o init \o cond
                \o <<T("Semicolon", ";")>> \o inc \o <<T("RightParen", ")")>> \o body
                \o <<T("EOF", "")>>)

ForInputs ==
    {ForTokens(init, cond, inc, body) :
        init \in ForInits, cond \in ForConds, inc \in ForIncs, body \in ForBodies}

AssignTargets ==
    {<<T("Identifier", "x")>>,
     <<Token_Number(1, 0)>>,
     <<Token_String("s", 0)>>,
     <<T("True", "true")>>,
     <<T("LeftParen", "("), T("Identifier", "x"), T("RightParen", ")")>>,
     <<T("Identifier", "x"), T("LeftParen", "("), T("RightParen", ")")>>,
     <<T("Identifier", "x"), T("Plus", "+"), T("Identifier", "y")>>}

\* The targets that are operands of a postfix ++ or --: x + y ++ increments y
PostfixTargets == {target \in AssignTargets : Len(target) # 3 \/ target[2].t_type # "Plus"}

CompoundOps ==
    {T("PlusEqual", "+="), T("MinusEqual", "-="), T("StarEqual", "*="),
     T("SlashEqual", "/=")}

IncDecOps == {T("PlusPlus", "++"), T("MinusMinus", "--")}

\* What comes before the expression in its statement: nothing, print, let y =
AssignContexts ==
    {<<>>,
     <<T("Print", "print")>>,
     <<T("Let", "let"), T("Identifier", "y"), T("Equal", "=")>>}

\* context target op= 2 ;
CompoundTokens(ctx, target, op) ==
    Spanned(ctx \o target \o <<op, Token_Number(2, 0), T("Semicolon", ";"), T("EOF", "")>>)

\* context target ++ ;
IncDecTokens(ctx, target, op) ==
    Spanned(ctx \o target \o <<op, T("Semicolon", ";"), T("EOF", "")>>)

AssignInputs ==
    {CompoundTokens(ctx, target, op) :
        ctx \in AssignContexts, target \in AssignTargets, op \in CompoundOps}
    \cup {IncDecTokens(ctx, target, op) :
            ctx \in AssignContexts, target \in PostfixTargets, op \in IncDecOps}

\* Well-formed statements around the malformed one, with their kinds
WellFormed ==
    {[tokens |-> <<>>, kinds |-> <<>>],
     [tokens |-> <<T("Print", "print"), Token_Number(2, 0), T("Semicolon", ";")>>,
      kinds |-> <<"Print">>],
     [tokens |-> <<T("Let", "let"), T("Identifier", "y"), T("Semicolon", ";"),
                   T("Print", "print"), T("Identifier", "y"), T("Semicolon", ";")>>,
      kinds |-> <<"Let", "Print">>]}

\* One malformed statement: at top level, or the only malformed statement of
\* a block or of a function body
Malformed ==
    {<<T("Print", "print"), T("Semicolon", ";")>>,
     <<T("Let", "let"), T("Equal", "="), Token_Number(1, 0), T("Semicolon", ";")>>,
     <<Token_Number(1, 0), T("Plus", "+"), T("Star", "*"), Token_Number(2, 0),
       T("Semicolon", ";")>>,
     <<T("LeftBrace", "{"), T("Print", "print"), T("Semicolon", ";"),
       T("RightBrace", "}")>>,
     <<T("LeftBrace", "{"), Token_Number(1, 0), T("Plus", "+"), T("RightBrace", "}")>>,
     <<T("Fn", "fn"), T("Identifier", "f"), T("LeftParen", "("), T("RightParen", ")"),
       T("LeftBrace", "{"), T("Print", "print"), T("Semicolon", ";"),
       T("RightBrace", "}")>>,
     <<T("Fn", "fn"), T("Identifier", "f"), T("LeftParen", "("), T("RightParen", ")"),
       T("LeftBrace", "{"), T("Print", "print"), Token_Number(1, 0),
       T("RightBrace", "}")>>}

\* pre malformed post
RecoveryTokens(pre, bad, post) ==
    Spanned(pre.tokens \o bad \o post.tokens \o <<T("EOF", "")>>)

RecoveryInputs ==
    {RecoveryTokens(pre, bad, post) :
        pre \in WellFormed, bad \in Malformed, post \in WellFormed}

\* fn f(a, b) { for (let i = 0; i < 2; i++) { if (a) print i; else return b; } }
\* f(1, 2); and every token list that is a prefix of it followed by EOF
TruncatedProgram ==
    <<T("Fn", "fn"), T("Identifier", "f"), T("LeftParen", "("), T("Identifier", "a"),
      T("Comma", ","), T("Identifier", "b"), T("RightParen", ")"), T("LeftBrace", "{"),
      T("For", "for"), T("LeftParen", "("), T("Let", "let"), T("Identifier", "i"),
      T("Equal", "="), Token_Number(0, 0), T("Semicolon", ";"), T("Identifier", "i"),
      T("Less", "<"), Token_Number(2, 0), T("Semicolon", ";"), T("Identifier", "i"),
      T("PlusPlus", "++"), T("RightParen", ")"), T("LeftBrace", "{"), T("If", "if"),
      T("LeftParen", "("), T("Identifier", "a"), T("RightParen", ")"),
      T("Print", "print"), T("Identifier", "i"), T("Semicolon", ";"), T("Else", "else"),
      T("Return", "return"), T("Identifier", "b"), T("Semicolon", ";"),
      T("RightBrace", "}"), T("RightBrace", "}"), T("Identifier", "f"),
      T("LeftParen", "("), Token_Number(1, 0), T("Comma", ","), Token_Number(2, 0),
      T("RightParen", ")"), T("Semicolon", ";")>>

TruncatedInputs ==
    {Spanned(SubSeq(TruncatedProgram, 1, n) \o <<T("EOF", "")>>) :
        n \in 0..Len(TruncatedProgram)}

\* Longest token list of GarbageInputs, EOF not counted
MaxGarbage == 3

GarbageTokens ==
    {T("RightParen", ")"), T("RightBrace", "}"), T("LeftBrace", "{"), T("Semicolon", ";"),
     T("Print", "print"), Token_Number(1, 0), T("Plus", "+"), T("Equal", "=")}

\* Every token list of up to MaxGarbage tokens of GarbageTokens, then EOF
GarbageInputs ==
    {Spanned(g \o <<T("EOF", "")>>) :
        g \in UNION {[1..n -> GarbageTokens] : n \in 1..MaxGarbage}}

ParserInputs ==
    ForInputs \cup AssignInputs \cup RecoveryInputs \cup TruncatedInputs \cup GarbageInputs

ParserInit ==
    /\ context = Interpreter_new
    /\ pc = "parse"
    /\ input = 0
    /\ source = <<>>
    /\ scanner = Scanner_new(<<>>)
    /\ tokens_ok = TRUE
    /\ tokens \in ParserInputs
    /\ statements = <<>>
    /\ parser = Parser_new(<<>>)
    /\ resolver = Resolver_new(<<>>)
    /\ issues = <<>>
    /\ result = [k |-> "None", message |-> "", errors |-> <<>>]
    /\ before = Interpreter_new
    /\ log = <<>>
    /\ runs = 0
    /\ index = 1

ParserNext == Parse

ParserSpec == ParserInit /\ [][ParserNext]_vars

-----------------------------------------------------------------------------
(* Programs given as token lists and taken through the parser, the         *)
(* resolver, the check of the batch and interpret(): lets that read their  *)
(* own name in the initializer, and names declared twice.                  *)

\* What precedes the scope: a print, without and with a global a
SelfPrefixes ==
    {<<T("Print", "print"), Token_String("before", 0), T("Semicolon", ";")>>,
     <<T("Let", "let"), T("Identifier", "a"), T("Equal", "="), Token_Number(1, 0),
       T("Semicolon", ";"), T("Print", "print"), Token_String("before", 0),
       T("Semicolon", ";")>>}

\* The scope the let is in: a block, a function body, a block inside a block
\* that binds a, and two scopes that declare a themselves before the let
SelfScopes ==
    {[open |-> <<T("LeftBrace", "{")>>,
      close |-> <<T("RightBrace", "}")>>,
      declared |-> FALSE],
     [open |-> <<T("Fn", "fn"), T("Identifier", "f"), T("LeftParen", "("),
                 T("RightParen", ")"), T("LeftBrace", "{")>>,
      close |-> <<T("RightBrace", "}"), T("Identifier", "f"), T("LeftParen", "("),
                  T("RightParen", ")"), T("Semicolon", ";")>>,
      declared |-> FALSE],
     [open |-> <<T("LeftBrace", "{"), T("Let", "let"), T("Identifier", "a"),
                 T("Equal", "="), Token_Number(2, 0), T("Semicolon", ";"),
                 T("LeftBrace", "{")>>,
      close |-> <<T("RightBrace", "}"), T("RightBrace", "}")>>,
      declared |-> FALSE],
     [open |-> <<T("LeftBrace", "{"), T("Let", "let"), T("Identifier", "a"),
                 T("Equal", "="), Token_Number(2, 0), T("Semicolon", ";")>>,
      close |-> <<T("RightBrace", "}")>>,
      declared |-> TRUE],
     [open |-> <<T("Fn", "fn"), T("Identifier", "f"), T("LeftParen", "("),
                 T("Identifier", "a"), T("RightParen", ")"), T("LeftBrace", "{")>>,
      close |-> <<T("RightBrace", "}"), T("Identifier", "f"), T("LeftParen", "("),
                  Token_Number(2, 0), T("RightParen", ")"), T("Semicolon", ";")>>,
      declared |-> TRUE]}

SelfInitializers ==
    {<<T("Identifier", "a")>>,
     <<T("Identifier", "a"), T("Plus", "+"), Token_Number(1, 0)>>,
     <<T("LeftParen", "("), T("Identifier", "a"), T("RightParen", ")")>>,
     <<T("Identifier", "a"), T("LeftParen", "("), T("RightParen", ")")>>}

\* pre scope.open let a = init ; print a ; scope.close
SelfTokens(pre, scope, init) ==
    Spanned(pre \o scope.open \o <<T("Let", "let"), T("Identifier", "a"), T("Equal", "=")>> \o init
                \o <<T("Semicolon", ";"), T("Print", "print"), T("Identifier", "a"),
                     T("Semicolon", ";")>> \o scope.close
                \o <<T("EOF", "")>>)

SelfInputs ==
    {SelfTokens(pre, scope, init) :
        pre \in SelfPrefixes, scope \in SelfScopes, init \in SelfInitializers}

DupScopes ==
    {[open |-> <<T("LeftBrace", "{")>>,
      close |-> <<T("RightBrace", "}")>>],
     [open |-> <<T("Fn", "fn"), T("Identifier", "f"), T("LeftParen", "("),
                 T("RightParen", ")"), T("LeftBrace", "{")>>,
      close |-> <<T("RightBrace", "}"), T("Identifier", "f"), T("LeftParen", "("),
                  T("RightParen", ")"), T("Semicolon", ";")>>],
     [open |-> <<T("LeftBrace", "{"), T("LeftBrace", "{")>>,
      close |-> <<T("RightBrace", "}"), T("RightBrace", "}")>>]}

DupFirsts ==
    {<<T("Let", "let"), T("Identifier", "b"), T("Semicolon", ";")>>,
     <<T("Fn", "fn"), T("Identifier", "b"), T("LeftParen", "("), T("RightParen", ")"),
       T("LeftBrace", "{"), T("RightBrace", "}")>>}

DupSeconds ==
    {<<T("Let", "let"), T("Identifier", "b"), T("Equal", "="), Token_Number(1, 0),
       T("Semicolon", ";")>>,
     <<T("Fn", "fn"), T("Identifier", "b"), T("LeftParen", "("), T("RightParen", ")"),
       T("LeftBrace", "{"), T("RightBrace", "}")>>}

\* print "before"; scope.open first second scope.close
DupTokens(scope, first, second) ==
    Spanned(<<T("Print", "print"), Token_String("before", 0), T("Semicolon", ";")>>
                \o scope.open \o first \o second \o scope.close \o <<T("EOF", "")>>)

\* A parameter list that names b twice, and bodies that declare the parameter
DupParams ==
    {Spanned(<<T("Print", "print"), Token_String("before", 0), T("Semicolon", ";"),
               T("Fn", "fn"), T("Identifier", "f"), T("LeftParen", "("),
               T("Identifier", "b"), T("Comma", ","), T("Identifier", "b"),
               T("RightParen", ")"), T("LeftBrace", "{"), T("RightBrace", "}"),
               T("Identifier", "f"), T("LeftParen", "("), Token_Number(1, 0),
               T("Comma", ","), Token_Number(2, 0), T("RightParen", ")"),
               T("Semicolon", ";")>>
                 \o <<T("EOF", "")>>),
     Spanned(<<T("Print", "print"), Token_String("before", 0), T("Semicolon", ";"),
               T("Fn", "fn"), T("Identifier", "f"), T("LeftParen", "("),
               T("Identifier", "b"), T("RightParen", ")"), T("LeftBrace", "{"),
               T("Let", "let"), T("Identifier", "b"), T("Semicolon", ";"),
               T("RightBrace", "}"), T("Identifier", "f"), T("LeftParen", "("),
               Token_Number(1, 0), T("RightParen", ")"), T("Semicolon", ";")>>
                 \o <<T("EOF", "")>>),
     Spanned(<<T("Print", "print"), Token_String("before", 0), T("Semicolon", ";"),
               T("Fn", "fn"), T("Identifier", "f"), T("LeftParen", "("),
               T("Identifier", "b"), T("RightParen", ")"), T("LeftBrace", "{"),
               T("Fn", "fn"), T("Identifier", "b"), T("LeftParen", "("),
               T("RightParen", ")"), T("LeftBrace", "{"), T("RightBrace", "}"),
               T("RightBrace", "}"), T("Identifier", "f"), T("LeftParen", "("),
               Token_Number(1, 0), T("RightParen", ")"), T("Semicolon", ";")>>
                 \o <<T("EOF", "")>>)}

DupInputs ==
    {DupTokens(scope, first, second) :
        scope \in DupScopes, first \in DupFirsts, second \in DupSeconds}
    \cup DupParams

\* Names declared twice at global scope, and once in each of two scopes, with
\* what the program prints
Redeclarations ==
    {[tokens |-> Spanned(<<T("Let", "let"), T("Identifier", "x"), T("Equal", "="),
                         Token_String("before", 0), T("Semicolon", ";"),
                         T("Print", "print"), T("Identifier", "x"), T("Semicolon", ";"),
                         T("Let", "let"), T("Identifier", "x"), T("Equal", "="),
                         Token_String("after", 0), T("Semicolon", ";"),
                         T("Print", "print"), T("Identifier", "x"), T("Semicolon", ";")>>
                           \o <<T("EOF", "")>>),
      output |-> <<"before", "after">>],
     [tokens |-> Spanned(<<T("Fn", "fn"), T("Identifier", "g"), T("LeftParen", "("),
                         T("RightParen", ")"), T("LeftBrace", "{"), T("Print", "print"),
                         Token_String("first", 0), T("Semicolon", ";"),
                         T("RightBrace", "}"), T("Fn", "fn"), T("Identifier", "g"),
                         T("LeftParen", "("), T("RightParen", ")"), T("LeftBrace", "{"),
                         T("Print", "print"), Token_String("second", 0),
                         T("Semicolon", ";"), T("RightBrace", "}"), T("Identifier", "g"),
                         T("LeftParen", "("), T("RightParen", ")"), T("Semicolon", ";")>>
                           \o <<T("EOF", "")>>),
      output |-> <<"second">>],
     [tokens |-> Spanned(<<T("Let", "let"), T("Identifier", "h"), T("Equal", "="),
                         Token_Number(1, 0), T("Semicolon", ";"), T("Fn", "fn"),
                         T("Identifier", "h"), T("LeftParen", "("), T("RightParen", ")"),
                         T("LeftBrace", "{"), T("Print", "print"), Token_String("fn", 0),
                         T("Semicolon", ";"), T("RightBrace", "}"), T("Identifier", "h"),
                         T("LeftParen", "("), T("RightParen", ")"), T("Semicolon", ";")>>
                           \o <<T("EOF", "")>>),
      output |-> <<"fn">>],
     [tokens |-> Spanned(<<T("Fn", "fn"), T("Identifier", "k"), T("LeftParen", "("),
                         T("RightParen", ")"), T("LeftBrace", "{"), T("RightBrace", "}"),
                         T("Let", "let"), T("Identifier", "k"), T("Equal", "="),
                         Token_Number(3, 0), T("Semicolon", ";"), T("Print", "print"),
                         T("Identifier", "k"), T("Semicolon", ";")>>
                           \o <<T("EOF", "")>>),
      output |-> <<"3">>],
     [tokens |-> Spanned(<<T("Let", "let"), T("Identifier", "x"), T("Equal", "="),
                         Token_Number(1, 0), T("Semicolon", ";"), T("LeftBrace", "{"),
                         T("Let", "let"), T("Identifier", "x"), T("Equal", "="),
                         Token_Number(2, 0), T("Semicolon", ";"), T("Print", "print"),
                         T("Identifier", "x"), T("Semicolon", ";"), T("RightBrace", "}"),
                         T("Print", "print"), T("Identifier", "x"), T("Semicolon", ";")>>
                           \o <<T("EOF", "")>>),
      output |-> <<"2", "1">>]}

\* Programs with return statements: the number of top-level statements that
\* hold a return outside every function body (an Err ends the walk of its
\* statement, so an if with a return in both branches counts once) and, when
\* there is none, what the program prints
ReturnPrograms ==
    {[tokens |-> Spanned(<<T("Fn", "fn"), T("Identifier", "f"), T("LeftParen", "("),
                         T("RightParen", ")"), T("LeftBrace", "{"), T("Return", "return"),
                         Token_Number(1, 0), T("Semicolon", ";"), T("RightBrace", "}"),
                         T("Print", "print"), T("Identifier", "f"), T("LeftParen", "("),
                         T("RightParen", ")"), T("Semicolon", ";")>>
                           \o <<T("EOF", "")>>),
      top_level |-> 0,
      output |-> <<"1">>],
     [tokens |-> Spanned(<<T("Fn", "fn"), T("Identifier", "f"), T("LeftParen", "("),
                         T("RightParen", ")"), T("LeftBrace", "{"), T("LeftBrace", "{"),
                         T("Return", "return"), Token_Number(1, 0), T("Semicolon", ";"),
                         T("RightBrace", "}"), T("RightBrace", "}"), T("Print", "print"),
                         T("Identifier", "f"), T("LeftParen", "("), T("RightParen", ")"),
                         T("Semicolon", ";")>>
                           \o <<T("EOF", "")>>),
      top_level |-> 0,
      output |-> <<"1">>],
     [tokens |-> Spanned(<<T("Fn", "fn"), T("Identifier", "f"), T("LeftParen", "("),
                         T("RightParen", ")"), T("LeftBrace", "{"), T("If", "if"),
                         T("LeftParen", "("), T("True", "true"), T("RightParen", ")"),
                         T("Return", "return"), Token_Number(1, 0), T("Semicolon", ";"),
                         T("RightBrace", "}"), T("Print", "print"), T("Identifier", "f"),
                         T("LeftParen", "("), T("RightParen", ")"), T("Semicolon", ";")>>
                           \o <<T("EOF", "")>>),
      top_level |-> 0,
      output |-> <<"1">>],
     [tokens |-> Spanned(<<T("Fn", "fn"), T("Identifier", "f"), T("LeftParen", "("),
                         T("RightParen", ")"), T("LeftBrace", "{"), T("While", "while"),
                         T("LeftParen", "("), T("True", "true"), T("RightParen", ")"),
                         T("LeftBrace", "{"), T("Return", "return"), Token_Number(1, 0),
                         T("Semicolon", ";"), T("RightBrace", "}"), T("RightBrace", "}"),
                         T("Print", "print"), T("Identifier", "f"), T("LeftParen", "("),
                         T("RightParen", ")"), T("Semicolon", ";")>>
                           \o <<T("EOF", "")>>),
      top_level |-> 0,
      output |-> <<"1">>],
     [tokens |-> Spanned(<<T("Fn", "fn"), T("Identifier", "f"), T("LeftParen", "("),
                         T("RightParen", ")"), T("LeftBrace", "{"), T("Fn", "fn"),
                         T("Identifier", "g"), T("LeftParen", "("), T("RightParen", ")"),
                         T("LeftBrace", "{"), T("Return", "return"), Token_Number(2, 0),
                         T("Semicolon", ";"), T("RightBrace", "}"), T("Return", "return"),
                         T("Identifier", "g"), T("LeftParen", "("), T("RightParen", ")"),
                         T("Semicolon", ";"), T("RightBrace", "}"), T("Print", "print"),
                         T("Identifier", "f"), T("LeftParen", "("), T("RightParen", ")"),
                         T("Semicolon", ";")>>
                           \o <<T("EOF", "")>>),
      top_level |-> 0,
      output |-> <<"2">>],
     [tokens |-> Spanned(<<T("Fn", "fn"), T("Identifier", "f"), T("LeftParen", "("),
                         T("RightParen", ")"), T("LeftBrace", "{"), T("Fn", "fn"),
                         T("Identifier", "g"), T("LeftParen", "("), T("RightParen", ")"),
                         T("LeftBrace", "{"), T("RightBrace", "}"), T("Return", "return"),
                         Token_Number(1, 0), T("Semicolon", ";"), T("RightBrace", "}"),
                         T("Print", "print"), T("Identifier", "f"), T("LeftParen", "("),
                         T("RightParen", ")"), T("Semicolon", ";")>>
                           \o <<T("EOF", "")>>),
      top_level |-> 0,
      output |-> <<"1">>],
     [tokens |-> Spanned(<<T("Print", "print"), Token_String("before", 0),
                         T("Semicolon", ";"), T("Return", "return"), Token_Number(1, 0),
                         T("Semicolon", ";")>>
                           \o <<T("EOF", "")>>),
      top_level |-> 1,
      output |-> <<>>],
     [tokens |-> Spanned(<<T("Print", "print"), Token_String("before", 0),
                         T("Semicolon", ";"), T("LeftBrace", "{"), T("Return", "return"),
                         Token_Number(1, 0), T("Semicolon", ";"), T("RightBrace", "}")>>
                           \o <<T("EOF", "")>>),
      top_level |-> 1,
      output |-> <<>>],
     [tokens |-> Spanned(<<T("Print", "print"), Token_String("before", 0),
                         T("Semicolon", ";"), T("If", "if"), T("LeftParen", "("),
                         T("True", "true"), T("RightParen", ")"), T("Return", "return"),
                         Token_Number(1, 0), T("Semicolon", ";"), T("Else", "else"),
                         T("Return", "return"), Token_Number(2, 0), T("Semicolon", ";")>>
                           \o <<T("EOF", "")>>),
      top_level |-> 1,
      output |-> <<>>],
     [tokens |-> Spanned(<<T("Print", "print"), Token_String("before", 0),
                         T("Semicolon", ";"), T("While", "while"), T("LeftParen", "("),
                         T("True", "true"), T("RightParen", ")"), T("Return", "return"),
                         Token_Number(1, 0), T("Semicolon", ";")>>
                           \o <<T("EOF", "")>>),
      top_level |-> 1,
      output |-> <<>>],
     [tokens |-> Spanned(<<T("Fn", "fn"), T("Identifier", "f"), T("LeftParen", "("),
                         T("RightParen", ")"), T("LeftBrace", "{"), T("Return", "return"),
                         Token_Number(1, 0), T("Semicolon", ";"), T("RightBrace", "}"),
                         T("Return", "return"), T("Identifier", "f"), T("LeftParen", "("),
                         T("RightParen", ")"), T("Semicolon", ";")>>
                           \o <<T("EOF", "")>>),
      top_level |-> 1,
      output |-> <<>>],
     [tokens |-> Spanned(<<T("Fn", "fn"), T("Identifier", "f"), T("LeftParen", "("),
                         T("RightParen", ")"), T("LeftBrace", "{"), T("Let", "let"),
                         T("Identifier", "b"), T("Semicolon", ";"), T("Let", "let"),
                         T("Identifier", "b"), T("Semicolon", ";"), T("RightBrace", "}"),
                         T("Return", "return"), Token_Number(1, 0), T("Semicolon", ";")>>
                           \o <<T("EOF", "")>>),
      top_level |-> 1,
      output |-> <<>>],
     [tokens |-> Spanned(<<T("Fn", "fn"), T("Identifier", "f"), T("LeftParen", "("),
                         T("Identifier", "a"), T("Comma", ","), T("Identifier", "a"),
                         T("RightParen", ")"), T("LeftBrace", "{"), T("RightBrace", "}"),
                         T("Return", "return"), Token_Number(1, 0), T("Semicolon", ";")>>
                           \o <<T("EOF", "")>>),
      top_level |-> 1,
      output |-> <<>>]}

ResolverInputs ==
    SelfInputs \cup DupInputs \cup {r.tokens : r \in Redeclarations}
        \cup {r.tokens : r \in ReturnPrograms}

ResolverInit ==
    /\ context = Interpreter_new
    /\ pc = "parse"
    /\ input = 0
    /\ source = <<>>
    /\ scanner = Scanner_new(<<>>)
    /\ tokens_ok = TRUE
    /\ tokens \in ResolverInputs
    /\ statements = <<>>
    /\ parser = Parser_new(<<>>)
    /\ resolver = Resolver_new(<<>>)
    /\ issues = <<>>
    /\ result = [k |-> "None", message |-> "", errors |-> <<>>]
    /\ before = Interpreter_new
    /\ log = <<>>
    /\ runs = 0
    /\ index = 1

ResolverNext ==
    \/ Parse
    \/ Resolve
    \/ Check
    \/ Interpret

ResolverSpec == ResolverInit /\ [][ResolverNext]_vars

-----------------------------------------------------------------------------
(* One print statement over a binary expression run on a fresh             *)
(* interpreter, for every operator and every pair of operand kinds: the    *)
(* literals of each type and a function value (the global clock).          *)

OperandValues == {NumberV(0), NumberV(2), StringV(""), StringV("a"),
                  BoolV(TRUE), BoolV(FALSE), NullV}

Operands == {Expr_Literal(1, v) : v \in OperandValues} \cup {Expr_Variable(1, "clock")}

BinaryOps == {"Minus", "Slash", "Star", "Plus", "Greater", "GreaterEqual",
              "Less", "LessEqual", "BangEqual", "EqualEqual"}

BinaryPrograms ==
    {<<Stmt_Print(1, Expr_Binary(3, l, op, [r EXCEPT !.id = 2]))>> :
        l \in Operands, op \in BinaryOps, r \in Operands}

\* let y = "unset"; let x = "unset"; print <left> or/and <right>; print x;
\* print y; where <left> is y = <literal> or the function value clock, and
\* <right> is x = "set" or a call of the undefined name boom
LogicalLefts ==
    {Expr_Assign(1, "y", Expr_Literal(4, v)) : v \in OperandValues}
        \cup {Expr_Variable(1, "clock")}

LogicalRights ==
    {Expr_Assign(2, "x", Expr_Literal(5, StringV("set"))),
     Expr_Call(2, Expr_Variable(5, "boom"), <<>>)}

LogicalPrograms ==
    {<<Stmt_Let(1, "y", Expr_Literal(6, StringV("unset"))),
       Stmt_Let(2, "x", Expr_Literal(7, StringV("unset"))),
       Stmt_Print(3, Expr_Logical(3, l, op, r)),
       Stmt_Print(4, Expr_Variable(8, "x")),
       Stmt_Print(5, Expr_Variable(9, "y"))>> :
        l \in LogicalLefts, op \in {"Or", "And"}, r \in LogicalRights}

\* print "before"; <return e;> print "after"; given to interpret() as they
\* are, with the return bare, in a block, in an if and in a while; e is a
\* literal, a function value or the undefined name boom
ReturnValues ==
    {Expr_Literal(1, NumberV(1)), Expr_Literal(1, NullV), Expr_Variable(1, "clock"),
     Expr_Variable(1, "boom")}

ReturnPlaces(ret) ==
    {ret,
     Stmt_Block(5, <<Stmt_Print(6, Expr_Literal(4, StringV("block"))), ret>>),
     Stmt_If(5, Expr_Literal(4, BoolV(TRUE)), ret, <<>>),
     Stmt_While(5, Expr_Literal(4, BoolV(TRUE)), Stmt_Block(6, <<ret>>))}

TopLevelReturns ==
    {<<Stmt_Print(1, Expr_Literal(2, StringV("before"))),
       place,
       Stmt_Print(3, Expr_Literal(3, StringV("after")))>> :
        place \in UNION {ReturnPlaces(Stmt_Return(2, e)) : e \in ReturnValues}}

ExprInit ==
    /\ context = Interpreter_new
    /\ pc = "interpret"
    /\ input = 0
    /\ source = <<>>
    /\ scanner = Scanner_new(<<>>)
    /\ tokens_ok = TRUE
    /\ tokens = <<>>
    /\ statements \in BinaryPrograms \cup LogicalPrograms \cup TopLevelReturns
    /\ parser = Parser_new(<<>>)
    /\ resolver = Resolver_new(<<>>)
    /\ issues = <<>>
    /\ result = [k |-> "None", message |-> "", errors |-> <<>>]
    /\ before = Interpreter_new
    /\ log = <<>>
    /\ runs = 0
    /\ index = 1

ExprNext == Interpret

ExprSpec == ExprInit /\ [][ExprNext]_vars

-----------------------------------------------------------------------------
(* The scanner on texts: Scanner::new(source).scan_tokens() for every text *)
(* of at most MaxSource characters over an alphabet with a character of    *)
(* each kind the scanner tells apart, and for longer texts with operators, *)
(* keywords, numbers with a fraction, strings and comments.                *)

MaxSource == 4

\* Whitespace, a letter, a digit, the characters of comments, the quote, a
\* character that starts no lexeme, and a character of two bytes
LexerAlphabet == {" ", "\n", "o", "1", "/", "*", "\"", "@", "U+00E9"}

BoundedSources == UNION {[1..n -> LexerAlphabet] : n \in 0..MaxSource}

PickedSources ==
    {<<"o", "r", " ", "o", "r", "1", ";">>,
     <<"l", "e", "t", " ", "_", "a", " ", "=", " ", "1", ".", "5", ";">>,
     <<"1", ".", "o", " ", "1", ".", ".", "2">>,
     <<"a", "+", "+", " ", "b", "+", "=", "1", " ", "-", "-", "c">>,
     <<"<", "=", ">", "=", "!", "=", "=", "=", "=", "<", ">", "!">>,
     <<"*", "=", "/", "=", "-", "=", "(", ")", "{", "}", ",", ".">>,
     <<"\"", "a", " ", "/", "/", "\n", "b", "\"", " ", "c">>,
     <<"1", " ", "/", "/", " ", "\"", "@", "\n", "2", "\t", "\r", "3">>,
     <<"1", "/", "*", " ", "@", "\n", "*", "*", "/", "2", "/", "3">>,
     <<"a", "#", "b", "\n", "$", "\"", "c", "\n", "d">>,
     <<"p", "r", "i", "n", "t", " ", "\"", "U+00E9", "\"", ";">>,
     <<"a", " ", "=", " ", "1", ";", " ", "/", "/", " ", "U+00E9">>,
     <<"a", "U+00E9", "b">>}

LexerInputs == BoundedSources \cup PickedSources

LexerInit ==
    /\ context = Interpreter_new
    /\ pc = "lex"
    /\ input = 0
    /\ source \in LexerInputs
    /\ scanner = Scanner_new(<<>>)
    /\ tokens_ok = FALSE
    /\ tokens = <<>>
    /\ statements = <<>>
    /\ parser = Parser_new(<<>>)
    /\ resolver = Resolver_new(<<>>)
    /\ issues = <<>>
    /\ result = [k |-> "None", message |-> "", errors |-> <<>>]
    /\ before = Interpreter_new
    /\ log = <<>>
    /\ runs = 0
    /\ index = 1

LexerNext == Lex

LexerSpec == LexerInit /\ [][LexerNext]_vars

-----------------------------------------------------------------------------
(* Successive calls of run() on one interpreter: each line is parsed by a  *)
(* new parser, resolved and interpreted, and the resolution map and the    *)
(* counter EXPR_ID go on from one line to the next.                        *)

\* Every token of the line is on source line 1
OneLine(token_list) ==
    [i \in 1..Len(token_list) |-> [token_list[i] EXCEPT !.span = 1]]

\* Lines with several references to the name x, all on one source line, with
\* the depth of each reference in the order of the identities: <<d>> for the
\* depth d and <<>> for a reference the resolver leaves to the global scope
SessionPrograms ==
    {[tokens |-> OneLine(<<T("Let", "let"), T("Identifier", "x"), T("Equal", "="),
                         Token_Number(1, 0), T("Semicolon", ";"), T("LeftBrace", "{"),
                         T("Let", "let"), T("Identifier", "x"), T("Equal", "="),
                         Token_Number(2, 0), T("Semicolon", ";"), T("Print", "print"),
                         T("Identifier", "x"), T("Semicolon", ";"), T("RightBrace", "}"),
                         T("Print", "print"), T("Identifier", "x"), T("Semicolon", ";")>>
                           \o <<T("EOF", "")>>),
      depths |-> <<<<0>>, <<>>>>],
     [tokens |-> OneLine(<<T("Let", "let"), T("Identifier", "x"), T("Equal", "="),
                         Token_Number(1, 0), T("Semicolon", ";"), T("LeftBrace", "{"),
                         T("Print", "print"), T("Identifier", "x"), T("Semicolon", ";"),
                         T("Let", "let"), T("Identifier", "x"), T("Equal", "="),
                         Token_Number(2, 0), T("Semicolon", ";"), T("Print", "print"),
                         T("Identifier", "x"), T("Semicolon", ";"), T("RightBrace", "}")>>
                           \o <<T("EOF", "")>>),
      depths |-> <<<<>>, <<0>>>>],
     [tokens |-> OneLine(<<T("LeftBrace", "{"), T("Let", "let"), T("Identifier", "x"),
                         T("Equal", "="), Token_Number(1, 0), T("Semicolon", ";"),
                         T("LeftBrace", "{"), T("Identifier", "x"), T("Equal", "="),
                         T("Identifier", "x"), T("Plus", "+"), Token_Number(1, 0),
                         T("Semicolon", ";"), T("Print", "print"), T("Identifier", "x"),
                         T("Semicolon", ";"), T("RightBrace", "}"), T("Print", "print"),
                         T("Identifier", "x"), T("Semicolon", ";"), T("RightBrace", "}")>>
                           \o <<T("EOF", "")>>),
      depths |-> <<<<1>>, <<1>>, <<1>>, <<0>>>>],
     [tokens |-> OneLine(<<T("Let", "let"), T("Identifier", "x"), T("Equal", "="),
                         Token_Number(1, 0), T("Semicolon", ";"), T("Identifier", "x"),
                         T("Equal", "="), T("Identifier", "x"), T("Plus", "+"),
                         Token_Number(1, 0), T("Semicolon", ";"), T("Print", "print"),
                         T("Identifier", "x"), T("Semicolon", ";")>>
                           \o <<T("EOF", "")>>),
      depths |-> <<<<>>, <<>>, <<>>>>],
     [tokens |-> OneLine(<<T("Let", "let"), T("Identifier", "x"), T("Equal", "="),
                         Token_Number(1, 0), T("Semicolon", ";"), T("LeftBrace", "{"),
                         T("Let", "let"), T("Identifier", "y"), T("Equal", "="),
                         T("Identifier", "x"), T("Semicolon", ";"), T("Let", "let"),
                         T("Identifier", "x"), T("Equal", "="), T("Identifier", "y"),
                         T("Semicolon", ";"), T("Identifier", "x"), T("Equal", "="),
                         Token_Number(2, 0), T("Semicolon", ";"), T("RightBrace", "}"),
                         T("Identifier", "x"), T("Equal", "="), Token_Number(3, 0),
                         T("Semicolon", ";")>>
                           \o <<T("EOF", "")>>),
      depths |-> <<<<>>, <<0>>, <<0>>, <<>>>>]}

SessionInputs == {r.tokens : r \in SessionPrograms}

SessionInit ==
    /\ context = Interpreter_new
    /\ pc = "prompt"
    /\ input = 0
    /\ source = <<>>
    /\ scanner = Scanner_new(<<>>)
    /\ tokens_ok = FALSE
    /\ tokens = <<>>
    /\ statements = <<>>
    /\ parser = Parser_new(<<>>)
    /\ resolver = Resolver_new(<<>>)
    /\ issues = <<>>
    /\ result = [k |-> "None", message |-> "", errors |-> <<>>]
    /\ before = Interpreter_new
    /\ log = <<>>
    /\ runs = 0
    /\ index = 1

SessionNext ==
    \/ \E line \in SessionInputs : ReadTokens(line)
    \/ Parse
    \/ Resolve
    \/ Check
    \/ Interpret

SessionSpec == SessionInit /\ [][SessionNext]_vars

-----------------------------------------------------------------------------
(* Properties.  The log holds the events of the current interpret() in     *)
(* order; RunOutput is what the current run has written to the sink.       *)

RunOutput == SubSeq(context.output, Len(before.output) + 1, Len(context.output))

RunEnded == pc = "prompt" /\ runs > 0

\* C1: every scope pushed by a Block statement or by a function call is
\* popped on every exit path (normal completion, runtime error, Return
\* signal): after the Block or the Call the environment stack has the depth
\* and the scopes it had immediately before it.
C1_ScopesPopped ==
    \A i \in 1..Len(log) :
        log[i].ev \in {"scope", "ret"} => log[i].after = log[i].before

\* A block inside a function body inside a block has ended in a runtime
\* error and the call has returned that error
C1_Witness ==
    /\ \E i \in 1..Len(log) :
          log[i].ev = "scope" /\ log[i].k = "Error" /\ Len(log[i].before) >= 3
    /\ \E i \in 1..Len(log) :
          log[i].ev = "ret" /\ log[i].k = "Error" /\ Len(log[i].before) >= 2

C3_EscapedClosureReadsCaptured ==
    /\ \A i \in 1..Len(log) :
          (runs > 0 /\ Sources[input] \in {Src_escape_return, Src_escape_assign}
           /\ log[i].ev = "error")
              => log[i].message # UndefinedVariable("c")
    /\ RunEnded =>
          /\ Sources[input] = Src_escape_return =>
                 result.k = "Ok" /\ RunOutput = <<"captured", "end">>
          /\ Sources[input] = Src_escape_assign =>
                 result.k = "Ok" /\ RunOutput = <<"kept", "end">>

\* C4 as stated: in a program without translation errors every Variable and
\* Assign expression that is evaluated has a depth in the resolution map or
\* names a variable bound in the global scope at the moment of evaluation.
C4_Original_ResolvedOrGlobal ==
    \A i \in 1..Len(log) :
        log[i].ev = "var" => log[i].has_depth \/ log[i].global_bound

\* C4 amended: an evaluated Variable or Assign expression has a depth in the
\* resolution map, or names a variable bound in the global scope at that
\* moment, or its evaluation raises the runtime error "Undefined variable
\* '<name>'" (and then the expression has no value and binds nothing).
C4_ResolvedOrGlobalOrUndefined ==
    \A i \in 1..Len(log) :
        log[i].ev = "var" =>
            \/ log[i].has_depth
            \/ log[i].global_bound
            \/ /\ log[i].k = "Error"
               /\ log[i].message = UndefinedVariable(log[i].name)
               /\ i < Len(log)
               /\ log[i + 1].ev = "error"
               /\ log[i + 1].message = log[i].message
               /\ log[i + 1].globals = context.environment[1]

\* An assignment to a name that has no depth and no global binding has been
\* evaluated, after an unresolved read and an unresolved assignment of a
\* bound global
C4_Witness ==
    \E i, j, r \in 1..Len(log) :
        /\ log[i].ev = "var" /\ log[i].op = "assign"
        /\ ~log[i].has_depth /\ ~log[i].global_bound /\ log[i].k = "Error"
        /\ log[j].ev = "var" /\ log[j].op = "assign"
        /\ ~log[j].has_depth /\ log[j].global_bound /\ log[j].k = "Ok"
        /\ log[r].ev = "var" /\ log[r].op = "get"
        /\ ~log[r].has_depth /\ log[r].global_bound /\ log[r].k = "Ok"

\* C5: run() always runs the lexer, the parser and the resolver, in that
\* order, merging their errors into one batch in that order; when the batch
\* is non-empty it is returned and no statement is executed: nothing is
\* written to the output sink and no binding of the interpreter's
\* environments changes.
C5_TranslationStages ==
    LET lexed == Sources[input].lex_errors
        parsed == Sources[input].parse_errors
        resolved == Resolver_resolve(Resolver_new(before.locals), statements).errors
        untouched == /\ context.output = before.output
                     /\ context.environment = before.environment
                     /\ context.slept = before.slept
                     /\ log = <<>>
                     /\ index = 1
    IN runs > 0 =>
        /\ pc = "lex" => issues = <<>> /\ ~tokens_ok /\ statements = <<>> /\ untouched
        /\ pc = "parse" => issues = lexed /\ tokens_ok /\ statements = <<>> /\ untouched
        /\ pc = "resolve" =>
              /\ issues = lexed \o parsed
              /\ statements = Sources[input].statements
              /\ context.locals = before.locals
              /\ untouched
        /\ pc = "check" => issues = lexed \o parsed \o resolved /\ untouched
        /\ pc = "interpret" => issues = <<>>
        /\ pc = "prompt" =>
              /\ issues = lexed \o parsed \o resolved
              /\ issues # <<>> <=> result.k = "TranslationErrors"
              /\ result.k = "TranslationErrors" => result.errors = issues /\ untouched

\* On an interpreter that has already printed and bound globals, a line with
\* one error of each stage has been rejected with the three errors in order
C5_Witness ==
    /\ RunEnded
    /\ Sources[input] = Src_three_errors
    /\ result.k = "TranslationErrors"
    /\ Len(result.errors) = 3
    /\ before.output # <<>>
    /\ DOMAIN before.environment[1] # DOMAIN Interpreter_new.environment[1]

ErrorEvents == {i \in 1..Len(log) : log[i].ev = "error"}

\* C6: when evaluating a statement raises a runtime error, interpret()
\* returns that error at once: nothing is executed or evaluated after the
\* error is raised (the enclosing blocks and calls only unwind), a failing
\* print statement writes nothing, and the output written by earlier
\* statements stays in the sink.
C6_RuntimeErrorStops ==
    /\ \A i \in ErrorEvents :
          /\ \A j \in (i + 1)..Len(log) :
                log[j].ev \in {"scope", "ret"} /\ log[j].k = "Error"
          /\ \A j \in 1..(i - 1) :
                log[j].ev = "exec" => log[j].out <= Len(log[i].output)
          /\ context.output = log[i].output
          /\ pc = "prompt"
          /\ result = [k |-> "RuntimeError", message |-> log[i].message, errors |-> <<>>]
    /\ (RunEnded /\ result.k = "RuntimeError") => ErrorEvents # {}
    /\ SubSeq(context.output, 1, Len(before.output)) = before.output

\* On an interpreter that has printed before, a print statement inside a
\* block inside a call inside a block has failed after two lines were written
C6_Witness ==
    /\ RunEnded
    /\ Sources[input] = Src_nested_error
    /\ result.k = "RuntimeError"
    /\ before.output # <<>>
    /\ RunOutput = <<"1", "in">>
    /\ \E i \in ErrorEvents :
          /\ log[i - 1].ev = "exec" /\ log[i - 1].kind = "Print"
          /\ log[i - 1].out = Len(context.output)
          /\ log[i].lvl = 1
          /\ i < Len(log)

\* C7: after interpret() ends with a runtime error raised at any nesting
\* depth of blocks and calls, the environment stack consists of exactly the
\* global scope with the bindings it had when the error was raised, and a
\* later run on the same interpreter reads the global bindings made before
\* the failure.
C7_GlobalsSurviveError ==
    /\ (RunEnded /\ result.k = "RuntimeError") =>
          /\ Len(context.environment) = 1
          /\ \A i \in ErrorEvents : context.environment = <<log[i].globals>>
          /\ \A n \in DOMAIN before.environment[1] :
                n \in DOMAIN context.environment[1]
    /\ (pc \notin {"prompt", "panicked"} /\ result.k = "RuntimeError") =>
          /\ Len(before.environment) = 1
          /\ (pc # "interpret" \/ index = 1) => context.environment = before.environment
          /\ (pc = "interpret" /\ index = 2 /\ Sources[input] = Src_read_x) =>
                /\ "x" \in DOMAIN before.environment[1]
                /\ RunOutput = <<Value_as_str(before.environment[1]["x"])>>

\* After a run that failed two scopes and one call deep, having bound the
\* global x first, a later run has printed x
C7_Witness ==
    /\ runs = 2
    /\ result.k = "RuntimeError"
    /\ result.message = "Left operand must be a number."
    /\ pc = "interpret" /\ index = 2 /\ Sources[input] = Src_read_x
    /\ RunOutput = <<"1">>

\* C8: a return executed at any depth of nested blocks, if statements and
\* while loops of a function body ends exactly the innermost active call:
\* between the return and the end of that call only the scopes of that body
\* unwind (no statement runs, no condition is tested), the call expression
\* evaluates to the returned value, a call whose body ended without a return
\* evaluates to Null, and execution continues in the caller.
C8_ReturnEndsInnermostCall ==
    /\ \A i \in 1..Len(log) :
          log[i].ev = "return" =>
              \E j \in (i + 1)..Len(log) :
                  /\ log[j].ev = "ret" /\ log[j].kind = "Function"
                  /\ log[j].lvl = log[i].lvl
                  /\ log[j].k = "Ok"
                  /\ log[j].value = log[i].value
                  /\ \A m \in (i + 1)..(j - 1) :
                        /\ log[m].ev = "scope"
                        /\ log[m].k = "Return"
                        /\ log[m].lvl = log[i].lvl
    /\ \A j \in 1..Len(log) :
          (log[j].ev = "ret" /\ log[j].kind = "Function" /\ log[j].k = "Ok") =>
              \E c \in 1..(j - 1) :
                  /\ log[c].ev = "call" /\ log[c].lvl = log[j].lvl /\ log[c].id = log[j].id
                  /\ \A m \in (c + 1)..(j - 1) :
                        log[m].ev \in {"call", "ret"} => log[m].lvl > log[j].lvl
                  /\ (\A m \in (c + 1)..(j - 1) :
                         ~(log[m].ev = "return" /\ log[m].lvl = log[j].lvl))
                        => log[j].value = NullV
    /\ RunEnded =>
          /\ Sources[input] = Src_return_nested =>
                 result.k = "Ok" /\ RunOutput = <<"1", "null", "after">>
          /\ Sources[input] = Src_single_recursion =>
                 result.k = "Ok" /\ RunOutput = <<"1">>

\* A return inside an if inside a block inside a while loop has ended the
\* call with its value through three scopes, a body without return has
\* answered Null, and the caller has gone on printing
C8_Witness ==
    /\ RunEnded
    /\ Sources[input] = Src_return_nested
    /\ RunOutput = <<"1", "null", "after">>
    /\ \E i \in 1..Len(log) :
          /\ log[i].ev = "return" /\ log[i].value = NumberV(1)
          /\ log[i + 1].ev = "scope" /\ log[i + 2].ev = "scope" /\ log[i + 3].ev = "scope"
          /\ log[i + 4].ev = "ret" /\ log[i + 4].value = NumberV(1)
    /\ \E j \in 1..Len(log) :
          /\ log[j].ev = "ret" /\ log[j].kind = "Function"
          /\ log[j].value = NullV /\ log[j - 1].ev = "scope" /\ log[j - 1].k = "Ok"

\* C9: calling any function value, user-defined or built-in (clock, typeof,
\* sleep), with a number of arguments different from its arity yields the
\* runtime error "Function expected N arguments but was given M", and
\* neither the function body nor the native action runs.
C9_ArityChecked ==
    \A j \in 1..Len(log) :
        (log[j].ev = "ret" /\ log[j].nargs # log[j].arity) =>
            /\ log[j].k = "Error"
            /\ log[j].message = ArityMessage(log[j].arity, log[j].nargs)
            /\ log[j - 1].ev = "error"
            /\ log[j - 2].ev = "call" /\ log[j - 2].id = log[j].id

\* C10: the condition of if and while, the left operand of and/or and the
\* operand of ! treat a value as false exactly when it is Bool(false) or
\* Null; every other value, function values included, is treated as true.
C10_Truthiness ==
    \A i \in 1..Len(log) :
        log[i].ev = "truthy" =>
            log[i].outcome = IF log[i].value \in {BoolV(FALSE), NullV}
                             THEN "false" ELSE "true"

\* The binary expression of a finished ExprSpec run
BinaryRunEnded ==
    /\ pc = "prompt" /\ runs = 0 /\ statements # <<>>
    /\ statements[1].kind = "Print" /\ statements[1].ex.kind = "Binary"

\* C11: == and != never raise a runtime error for any pair of runtime
\* values: on two literals they give value equality and its negation
\* (values of different types are unequal), and when one operand is a
\* Function value and the other a literal, == is false and != is true.
C11_EqualityNeverFails ==
    (BinaryRunEnded /\ statements[1].ex.op \in {"EqualEqual", "BangEqual"}) =>
        LET e == statements[1].ex
            functions == {x \in {e.left, e.right} : x.kind = "Variable"}
            equal == /\ functions = {}
                     /\ e.left.value.k = e.right.value.k
                     /\ e.left.value.v = e.right.value.v
        IN /\ result.k = "Ok"
           /\ Cardinality(functions) < 2 =>
                 context.output =
                     <<IF equal <=> e.op = "EqualEqual" THEN "true" ELSE "false">>

\* C12: binary + succeeds exactly when both operands are Numbers (sum) or
\* both are Strings (concatenation); -, *, /, <, <=, >, >= succeed exactly
\* when both operands are Numbers; every other combination of operand types
\* yields a runtime error that carries the position of the operator, and
\* produces no value: nothing is printed.
C12_BinaryOperandTypes ==
    (BinaryRunEnded /\ statements[1].ex.op \notin {"EqualEqual", "BangEqual"}) =>
        LET e == statements[1].ex
            kind(x) == IF x.kind = "Variable" THEN "Function" ELSE x.value.k
            numbers == kind(e.left) = "Number" /\ kind(e.right) = "Number"
            strings == kind(e.left) = "String" /\ kind(e.right) = "String"
            l == e.left.value.v
            r == e.right.value.v
            bool(b) == IF b THEN "true" ELSE "false"
        IN IF numbers \/ (e.op = "Plus" /\ strings)
           THEN /\ result.k = "Ok"
                /\ ErrorEvents = {}
                /\ Len(context.output) = 1
                /\ e.op = "Plus" => context.output[1] = IF strings THEN l \o r
                                                        ELSE ToString(l + r)
                /\ e.op = "Minus" => context.output[1] = ToString(l - r)
                /\ e.op = "Star" => context.output[1] = ToString(l * r)
                /\ e.op = "Less" => context.output[1] = bool(l < r)
                /\ e.op = "LessEqual" => context.output[1] = bool(l <= r)
                /\ e.op = "Greater" => context.output[1] = bool(l > r)
                /\ e.op = "GreaterEqual" => context.output[1] = bool(l >= r)
           ELSE /\ result.k = "RuntimeError"
                /\ context.output = <<>>
                /\ Cardinality(ErrorEvents) = 1
                /\ \A i \in ErrorEvents :
                      log[i].span = e.id /\ log[i].message = result.message

\* "a" + 2 has failed at the operator and printed nothing
C12_Witness ==
    /\ BinaryRunEnded
    /\ statements[1].ex.op = "Plus"
    /\ statements[1].ex.left = Expr_Literal(1, StringV("a"))
    /\ statements[1].ex.right = Expr_Literal(2, NumberV(2))
    /\ result.k = "RuntimeError"
    /\ result.message = "Cannot concatenate non-string value."
    /\ \E i \in ErrorEvents : log[i].span = 3

\* The logical expression of a finished ExprSpec run
LogicalRunEnded ==
    /\ pc = "prompt" /\ runs = 0 /\ Len(statements) = 5
    /\ statements[3].ex.kind = "Logical"

\* C13: evaluating l or r / l and r evaluates l exactly once; when l is
\* truthy (or) respectively falsy (and), r is never evaluated, so none of its
\* assignments, calls or errors occur, and the result is l's value itself,
\* not coerced to Bool; otherwise the result is r's value.  A value is falsy
\* exactly when it is Bool(false) or Null.
C13_ShortCircuit ==
    LogicalRunEnded =>
        LET e == statements[3].ex
            lvalue == IF e.left.kind = "Assign"
                      THEN e.left.value.value
                      ELSE Interpreter_new.environment[1]["clock"]
            truthy == lvalue \notin {BoolV(FALSE), NullV}
            skipped == IF e.op = "Or" THEN truthy ELSE ~truthy
            y == IF e.left.kind = "Assign" THEN Value_as_str(lvalue) ELSE "unset"
        IN /\ Cardinality({i \in 1..Len(log) :
                              log[i].ev = "var" /\ log[i].id = e.left.id}) = 1
           /\ IF skipped
              THEN /\ result.k = "Ok"
                   /\ context.output = <<Value_as_str(lvalue), "unset", y>>
                   /\ \A i \in 1..Len(log) :
                         /\ log[i].ev \notin {"call", "error"}
                         /\ log[i].ev = "var" => log[i].id # e.right.id
              ELSE IF e.right.kind = "Assign"
              THEN result.k = "Ok" /\ context.output = <<"set", "set", y>>
              ELSE /\ result.k = "RuntimeError"
                   /\ result.message = UndefinedVariable("boom")
                   /\ context.output = <<>>

\* C14: a let inside a block binds only in the scope of that block.  When a
\* block or a function body exits, every scope that encloses it holds the
\* names and the values it held when the block was entered, except for the
\* names a statement that ran inside the block assigned to; a read that
\* follows the let inside the block sees the inner binding, and a read after
\* the block sees the enclosing one again.
C14_LetBindsInBlockOnly ==
    /\ \A i \in 1..Len(log) :
          log[i].ev = "scope" =>
              \A b \in log[i].changed :
                  \E j \in (log[i].from + 1)..(i - 1) :
                      /\ log[j].ev = "var"
                      /\ log[j].op = "assign"
                      /\ log[j].name = b[2]
                      /\ log[j].k = "Ok"
    /\ RunEnded =>
        /\ Sources[input] = Src_block_scope =>
               result.k = "Ok" /\ RunOutput = <<"first", "second", "outside">>
        /\ Sources[input] = Src_shadowing =>
               /\ result.k = "Ok"
               /\ RunOutput = <<"inner a", "outer b", "global c",
                                "outer a", "outer b", "global c",
                                "global a", "global b", "global c">>
        /\ Sources[input] = Src_block_assign =>
               /\ result.k = "Ok"
               /\ RunOutput = <<"inner assigned", "assigned", "kept">>

C14_Witness ==
    /\ RunEnded
    /\ Sources[input] = Src_block_assign
    /\ RunOutput = <<"inner assigned", "assigned", "kept">>
    /\ \E i \in 1..Len(log) :
          /\ log[i].ev = "scope"
          /\ log[i].k = "Ok"
          /\ log[i].changed = {<<1, "x">>}

\* C15: a reference that the resolver left without a depth, read as a
\* variable or called as a function, is taken from the global scope as it is
\* when the reference is evaluated: it yields the value the global scope binds
\* to the name at that moment.  A function body can therefore use a global
\* that is defined, or assigned, after the function's declaration: isOdd and
\* isEven call each other, show prints the value late has when show is
\* called, and f calls the function a that the global scope binds when f runs.
C15_GlobalReadAtEvaluation ==
    /\ \A i \in 1..Len(log) :
          (/\ log[i].ev \in {"var", "call"}
           /\ log[i].ev = "var" => log[i].op = "get"
           /\ ~log[i].has_depth
           /\ log[i].global_bound) =>
              log[i].value = log[i].global_value
    /\ RunEnded =>
        /\ Sources[input] = Src_mutual_recursion =>
               result.k = "Ok" /\ RunOutput = <<"true", "false", "true", "false">>
        /\ Sources[input] = Src_late_global =>
               result.k = "Ok" /\ RunOutput = <<"defined later", "assigned later">>
        /\ Sources[input] = Src_redefined_callee =>
               result.k = "Ok" /\ RunOutput = <<"new">>

ParseEnded == pc = "resolve"

\* The number of statements a block body of ForBodies holds
StatementsOf(body) == Cardinality({i \in 1..Len(body) : body[i].t_type = "Semicolon"})

\* C16: for (init; cond; inc) body parses to
\* Block[init, While(cond, Block[body, Expression(inc)])].  The body, also
\* when it is a block, stays one statement, and the increment is the
\* statement after it; a missing condition becomes the literal true, a
\* missing increment leaves the body as it is, and a missing initializer
\* leaves out the outer Block.
C16_ForDesugaring ==
    \A init \in ForInits, cond \in ForConds, inc \in ForIncs, body \in ForBodies :
        (ParseEnded /\ tokens = ForTokens(init, cond, inc, body)) =>
            LET has_init == init[1].t_type # "Semicolon"
                st == statements[1]
                while == IF has_init THEN st.statements[2] ELSE st
                original == IF inc = <<>> THEN while.body ELSE while.body.statements[1]
            IN /\ issues = <<>>
               /\ Len(statements) = 1
               /\ has_init =>
                      /\ st.kind = "Block"
                      /\ Len(st.statements) = 2
                      /\ st.statements[1].kind =
                             (IF init[1].t_type = "Let" THEN "Let" ELSE "Expression")
               /\ while.kind = "While"
               /\ cond = <<>> =>
                      /\ while.condition.kind = "Literal"
                      /\ while.condition.value = BoolV(TRUE)
               /\ cond # <<>> =>
                      /\ while.condition.kind = "Binary"
                      /\ while.condition.op = "Less"
               /\ inc # <<>> =>
                      /\ while.body.kind = "Block"
                      /\ Len(while.body.statements) = 2
                      /\ while.body.statements[2].kind = "Expression"
                      /\ while.body.statements[2].ex.kind = "Assign"
                      /\ while.body.statements[2].ex.name = "x"
               /\ original.kind = (IF body[1].t_type = "LeftBrace" THEN "Block" ELSE "Print")
               /\ body[1].t_type = "LeftBrace" =>
                      Len(original.statements) = StatementsOf(body)

\* The arithmetic operator a compound assignment or an increment expands to
ArithmeticOf(op) ==
    CASE op.t_type \in {"PlusEqual", "PlusPlus"} -> "Plus"
      [] op.t_type \in {"MinusEqual", "MinusMinus"} -> "Minus"
      [] op.t_type = "StarEqual" -> "Star"
      [] op.t_type = "SlashEqual" -> "Slash"

\* The parse of <ctx> <target> <op> [2] ; : one statement of the kind of ctx.
\* Its expression is Assign(x, Binary(Variable x, op, operand)) and there is no
\* error when the target is the variable x; otherwise the expression is the
\* target alone and there is exactly the one error message.
AssignParsed(ctx, target, op, operand, message) ==
    LET st == statements[1]
        ex == IF ctx = <<>> \/ ctx[1].t_type = "Print" THEN st.ex ELSE st.initializer
    IN /\ Len(statements) = 1
       /\ st.kind = (IF ctx = <<>> THEN "Expression"
                     ELSE IF ctx[1].t_type = "Print" THEN "Print" ELSE "Let")
       /\ IF Len(target) = 1 /\ target[1].t_type = "Identifier"
          THEN /\ issues = <<>>
               /\ ex.kind = "Assign"
               /\ ex.name = "x"
               /\ ex.value.kind = "Binary"
               /\ ex.value.left.kind = "Variable"
               /\ ex.value.left.name = "x"
               /\ ex.value.op = ArithmeticOf(op)
               /\ ex.value.right.kind = "Literal"
               /\ ex.value.right.value = NumberV(operand)
          ELSE /\ issues = <<message>>
               /\ ex.kind = (CASE target[1].t_type \in {"Number", "String", "True"} ->
                                    "Literal"
                               [] target[1].t_type = "LeftParen" -> "Grouping"
                               [] Len(target) = 3 /\ target[2].t_type = "LeftParen" -> "Call"
                               [] OTHER -> "Binary")

\* C17 as the claim states it: x op= e parses to Assign(x, Binary(Variable x,
\* op, e)) and x++ / x-- to Assign(x, Binary(Variable x, +/-, Literal 1));
\* a target that is no plain variable gives exactly one error, "Invalid
\* assignment target.", for the compound assignments and for ++ and -- alike,
\* and the enclosing statement is still produced.
C17_Original_InvalidAssignmentTarget ==
    \A ctx \in AssignContexts :
        /\ \A target \in AssignTargets, op \in CompoundOps :
              (ParseEnded /\ tokens = CompoundTokens(ctx, target, op)) =>
                  AssignParsed(ctx, target, op, 2, "Invalid assignment target.")
        /\ \A target \in PostfixTargets, op \in IncDecOps :
              (ParseEnded /\ tokens = IncDecTokens(ctx, target, op)) =>
                  AssignParsed(ctx, target, op, 1, "Invalid assignment target.")

\* C17: x op= e parses to Assign(x, Binary(Variable x, op, e)) and x++ / x--
\* to Assign(x, Binary(Variable x, +/-, Literal 1)).  A target that is no
\* plain variable gives exactly one error and the parser does not unwind: the
\* enclosing statement is still produced, with the target as its expression.
\* The error is "Invalid assignment target." for a compound assignment and
\* "Invalid increment/decrement target." for ++ and --.
C17_InvalidTargetReported ==
    \A ctx \in AssignContexts :
        /\ \A target \in AssignTargets, op \in CompoundOps :
              (ParseEnded /\ tokens = CompoundTokens(ctx, target, op)) =>
                  AssignParsed(ctx, target, op, 2, "Invalid assignment target.")
        /\ \A target \in PostfixTargets, op \in IncDecOps :
              (ParseEnded /\ tokens = IncDecTokens(ctx, target, op)) =>
                  AssignParsed(ctx, target, op, 1, "Invalid increment/decrement target.")

C17_Witness ==
    /\ ParseEnded
    /\ tokens = IncDecTokens(<<T("Print", "print")>>,
                             <<T("LeftParen", "("), T("Identifier", "x"),
                               T("RightParen", ")")>>,
                             T("PlusPlus", "++"))
    /\ issues = <<"Invalid increment/decrement target.">>
    /\ Len(statements) = 1
    /\ statements[1].kind = "Print"
    /\ statements[1].ex.kind = "Grouping"

\* The kinds of a list of statements
Kinds(stmts) == [i \in 1..Len(stmts) |-> stmts[i].kind]

\* C18: a malformed statement contributes exactly one parse error, also when
\* it is inside a block or a function body, and the well-formed statements
\* before it and from the synchronization point on are parsed and returned.
C18_OneErrorPerMalformedStatement ==
    \A pre \in WellFormed, bad \in Malformed, post \in WellFormed :
        (ParseEnded /\ tokens = RecoveryTokens(pre, bad, post)) =>
            LET ks == Kinds(statements) IN
            /\ Len(issues) = 1
            /\ Len(ks) >= Len(pre.kinds) + Len(post.kinds)
            /\ SubSeq(ks, 1, Len(pre.kinds)) = pre.kinds
            /\ SubSeq(ks, Len(ks) - Len(post.kinds) + 1, Len(ks)) = post.kinds

\* The driver has finished with the batch of a token-list program
BatchEnded == pc = "prompt" /\ tokens # <<>>

\* The batch was rejected with exactly this error and nothing was executed
RejectedWith(message) ==
    /\ issues = <<message>>
    /\ result.k = "TranslationErrors"
    /\ result.errors = <<message>>
    /\ context.output = <<>>
    /\ log = <<>>

\* C19 as stated: in any block or function scope, a let whose initializer
\* reads the name being declared is reported as "Can't read local variable in
\* its own initializer." and nothing is executed.
C19_Original_OwnInitializer ==
    \A pre \in SelfPrefixes, scope \in SelfScopes, init \in SelfInitializers :
        (BatchEnded /\ tokens = SelfTokens(pre, scope, init)) =>
            RejectedWith("Can't read local variable in its own initializer.")

\* C19: in a block or function scope that does not declare the name yet, a
\* let whose initializer reads the name being declared is reported as "Can't
\* read local variable in its own initializer.", also when an enclosing scope
\* binds the name; when the same scope already declares the name (an earlier
\* let, or a parameter in a function body) the error is "Already a variable
\* with this name in this scope." instead. Either way nothing is executed.
C19_OwnInitializerOrRedeclaration ==
    \A pre \in SelfPrefixes, scope \in SelfScopes, init \in SelfInitializers :
        (BatchEnded /\ tokens = SelfTokens(pre, scope, init)) =>
            IF scope.declared
            THEN RejectedWith("Already a variable with this name in this scope.")
            ELSE RejectedWith("Can't read local variable in its own initializer.")

\* let a = 1; print "before"; { let a = 2; { let a = a + 1; print a; } } is
\* rejected for the innermost let
C19_Witness ==
    /\ BatchEnded
    /\ \E pre \in SelfPrefixes, scope \in SelfScopes, init \in SelfInitializers :
          /\ Len(pre) > 3
          /\ Len(scope.open) = 7
          /\ Len(init) = 3
          /\ ~scope.declared
          /\ tokens = SelfTokens(pre, scope, init)
    /\ issues = <<"Can't read local variable in its own initializer.">>
    /\ Len(statements) = 3
    /\ context.output = <<>>

\* C20: declaring a name twice in the same non-global scope (by let, function
\* declaration or parameter) is the translation error "Already a variable
\* with this name in this scope." and nothing is executed, while a name
\* declared again at global scope is accepted and rebound: the program runs
\* and a later read gives the later value.
C20_RedeclarationLocalErrorGlobalRebinds ==
    /\ \A scope \in DupScopes, first \in DupFirsts, second \in DupSeconds :
          (BatchEnded /\ tokens = DupTokens(scope, first, second)) =>
              RejectedWith("Already a variable with this name in this scope.")
    /\ \A dup \in DupParams :
          (BatchEnded /\ tokens = dup) =>
              RejectedWith("Already a variable with this name in this scope.")
    /\ \A program \in Redeclarations :
          (BatchEnded /\ tokens = program.tokens) =>
              /\ issues = <<>>
              /\ result.k = "Ok"
              /\ context.output = program.output

\* let x = "before"; print x; let x = "after"; print x; has run
C20_Witness ==
    /\ BatchEnded
    /\ \E program \in Redeclarations :
          /\ program.output = <<"before", "after">>
          /\ tokens = program.tokens
    /\ Len(statements) = 4
    /\ statements[1].kind = "Let"
    /\ statements[3].kind = "Let"
    /\ statements[1].name = statements[3].name
    /\ issues = <<>>
    /\ context.output = <<"before", "after">>
    /\ context.environment[1]["x"] = [k |-> "String", v |-> "after"]

\* The number of errors of a batch with this message
Reported(batch, message) == Cardinality({i \in 1..Len(batch) : batch[i] = message})

\* C21: a return statement is reported as "Can't return from top-level code"
\* exactly when it is outside every function body: the batch holds one such
\* error per top-level statement with such a return, also for a return that
\* follows a function declaration, and programs whose returns are all inside
\* functions run.
C21_TopLevelReturn ==
    \A program \in ReturnPrograms :
        (BatchEnded /\ tokens = program.tokens) =>
            /\ Reported(issues, "Can't return from top-level code") = program.top_level
            /\ program.top_level = 0 =>
                  /\ issues = <<>>
                  /\ result.k = "Ok"
                  /\ context.output = program.output

\* Resolver::resolve has just returned
ResolveEnded == pc = "check"

\* C28: when Resolver::resolve returns, with or without errors, the scope
\* stack of the resolver is empty and its function-kind marker is None.
C28_ResolverBalanced ==
    ResolveEnded =>
        /\ resolver.scopes = <<>>
        /\ resolver.current_function = "None"

\* C30: Parser::parse ends on every token list that ends in EOF, with the
\* cursor on the EOF token: every turn of the top-level loop and of the block
\* loop moves the cursor forward, also when declaration() recovers through
\* synchronize, and the cursor is never past the EOF token.
C30_ParseTerminatesAtEof ==
    (ParseEnded /\ tokens # <<>>) =>
        /\ parser.current = Len(tokens) - 1
        /\ Parser_is_at_end(parser)
        /\ \A i \in 1..Len(parser.progress) :
              /\ parser.progress[i].before < parser.progress[i].after
              /\ parser.progress[i].after <= Len(tokens) - 1

\* { ) ; has been parsed: the block loop and the top-level loop have both
\* recovered from an error
C30_Witness ==
    /\ ParseEnded
    /\ tokens \in GarbageInputs
    /\ Len(tokens) = 4
    /\ tokens[1].t_type = "LeftBrace"
    /\ tokens[2].t_type = "RightParen"
    /\ tokens[3].t_type = "Semicolon"
    /\ \E i \in 1..Len(parser.progress) : parser.progress[i].loop = "block"
    /\ \E i \in 1..Len(parser.progress) : parser.progress[i].loop = "parse"
    /\ parser.errors # <<>>
    /\ parser.current = 3

\* interpret() has returned for a program of TopLevelReturns
ReturnRunEnded == pc = "prompt" /\ runs = 0 /\ statements \in TopLevelReturns

\* The events of the log that are Return signals
ReturnEvents == {i \in 1..Len(log) : log[i].ev = "return"}

\* C29: a Return signal that reaches interpret() at top level is not reported
\* as a runtime error: interpret() returns success, and the statements after
\* the return are not executed.
C29_TopLevelReturnIsSuccess ==
    (ReturnRunEnded /\ ReturnEvents # {}) =>
        /\ result.k = "Ok"
        /\ result.message = ""
        /\ context.output \in {<<"before">>, <<"before", "block">>}

\* print "before"; while (true) { return clock; } print "after"; has ended
C29_Witness ==
    /\ ReturnRunEnded
    /\ statements[2].kind = "While"
    /\ statements[2].body.statements[1].ex.kind = "Variable"
    /\ ReturnEvents # {}
    /\ result.k = "Ok"
    /\ context.output = <<"before">>
    /\ Len(context.environment) = 1

\* scan_tokens has been called on the source and has returned or panicked
Scanned == scanner.panicked \/ scanner.tokens # <<>>

\* C22: for every source, the empty one and those with lex errors included,
\* scan_tokens returns a token list whose last token is EOF with an empty
\* lexeme and that holds no other EOF; the empty source gives one token
C22_EndsWithSingleEof ==
    Scanned =>
        /\ ~scanner.panicked
        /\ scanner.tokens # <<>>
        /\ scanner.tokens[Len(scanner.tokens)].t_type = "EOF"
        /\ scanner.tokens[Len(scanner.tokens)].lexeme = <<>>
        /\ \A i \in 1..(Len(scanner.tokens) - 1) : scanner.tokens[i].t_type # "EOF"
        /\ (source = <<>> => Len(scanner.tokens) = 1)

\* The characters on which scan_token does not report "Unexpected character"
LexemeStarts ==
    {" ", "\r", "\t", "\n", "(", ")", "{", "}", ",", ".", ";", "+", "-", "*", "!",
     "=", "<", ">", "/", "\""} \cup AsciiDigits \cup AsciiLetters \cup {"_"}

\* The turns of scan_tokens that met an unexpected character
UnexpectedTurns ==
    {i \in 1..Len(scanner.turns) :
        /\ scanner.turns[i].start < Len(source)
        /\ source[scanner.turns[i].start + 1] \notin LexemeStarts}

\* The turns of scan_tokens that met a quote which no later quote closes
UnterminatedTurns ==
    {i \in 1..Len(scanner.turns) :
        /\ scanner.turns[i].start < Len(source)
        /\ source[scanner.turns[i].start + 1] = "\""
        /\ \A j \in (scanner.turns[i].start + 2)..Len(source) : source[j] # "\""}

\* The source with a space in the place of each unexpected character
Blanked ==
    [j \in 1..Len(source) |->
        IF \E i \in UnexpectedTurns : scanner.turns[i].start + 1 = j THEN " "
        ELSE source[j]]

\* C23: each unexpected character and each unterminated string adds exactly
\* one lex error and no token, and an unexpected character does not stop the
\* scanning: the tokens are those of the source without these characters
C23_ErrorsAreCollected ==
    Scanned =>
        /\ \A i \in UnexpectedTurns \cup UnterminatedTurns :
              scanner.turns[i].errors = 1 /\ scanner.turns[i].tokens = 0
        /\ ~scanner.panicked =>
              Len(scanner.errors) = Cardinality(UnexpectedTurns \cup UnterminatedTurns)
        /\ LET rest == Scanner_scan_tokens(Scanner_new(Blanked)) IN
           /\ rest.panicked = scanner.panicked
           /\ ~scanner.panicked => rest.tokens = scanner.tokens

RECURSIVE Stripped(_, _, _)

\* The characters of str from the one of index i (from 1) on, without the
\* whitespace outside string literals and without the comments; mode tells
\* whether i is in code, in a string, in a line comment or in a block comment
Stripped(str, i, mode) ==
    IF i > Len(str) THEN <<>>
    ELSE LET c == str[i]
             next == IF i < Len(str) THEN str[i + 1] ELSE "NUL"
    IN CASE mode = "string" ->
               <<c>> \o Stripped(str, i + 1, IF c = "\"" THEN "code" ELSE "string")
         [] mode = "line" ->
               Stripped(str, i + 1, IF c = "\n" THEN "code" ELSE "line")
         [] mode = "block" ->
               IF c = "*" /\ next = "/" THEN Stripped(str, i + 2, "code")
               ELSE Stripped(str, i + 1, "block")
         [] OTHER ->
               IF c \in {" ", "\r", "\t", "\n"} THEN Stripped(str, i + 1, "code")
               ELSE IF c = "/" /\ next = "/" THEN Stripped(str, i + 2, "line")
               ELSE IF c = "/" /\ next = "*" THEN Stripped(str, i + 2, "block")
               ELSE <<c>> \o Stripped(str, i + 1, IF c = "\"" THEN "string" ELSE "code")

RECURSIVE Lexemes(_)

\* The lexemes of a token list, one after the other
Lexemes(toks) == IF toks = <<>> THEN <<>> ELSE Head(toks).lexeme \o Lexemes(Tail(toks))

\* scan_tokens has returned its tokens and its errors
Returned == Scanned /\ ~scanner.panicked

\* C24 as stated: for every source, the lexemes of the tokens that
\* scan_tokens returns, one after the other, are the source without its
\* whitespace outside string literals and without its comments
C24_Original_LexemesAreTheSource ==
    Returned => Lexemes(scanner.tokens) = Stripped(source, 1, "code")

\* C24: for every source on which scan_tokens reports no lex error, the
\* lexemes of the tokens it returns, one after the other, are the source
\* without its whitespace outside string literals and without its comments
C24_LexemesAreTheSourceWithoutErrors ==
    (Returned /\ scanner.errors = <<>>) =>
        Lexemes(scanner.tokens) = Stripped(source, 1, "code")

\* A source scanned without errors that holds a string literal with a space
\* in it, and whitespace or a comment outside it
C24_Witness ==
    /\ Returned
    /\ scanner.errors = <<>>
    /\ \E i \in 1..Len(scanner.tokens) :
          /\ scanner.tokens[i].t_type = "String"
          /\ \E j \in 1..Len(scanner.tokens[i].lexeme) : scanner.tokens[i].lexeme[j] = " "
    /\ Len(Stripped(source, 1, "code")) < Len(source)
    /\ Len(scanner.tokens) >= 3

\* The events of the current run at which a Variable or an Assign with a
\* recorded depth was evaluated
ResolvedReferences ==
    {i \in 1..Len(log) : log[i].ev = "var" /\ log[i].has_depth}

\* C25: in a program without resolver errors, whenever a Variable or an
\* Assign with a recorded depth d is evaluated, the stack holds more than d
\* scopes and the scope d below the top binds the name: get_at and assign_at
\* neither index out of range nor report an undefined variable, wherever the
\* function is called from
C25_ResolvedDepthIsValid ==
    \A i \in ResolvedReferences : log[i].k = "Ok"

\* The events of the current run at which a function was invoked by a call
Invocations == {i \in 1..Len(log) : log[i].ev = "call"}

\* C26: the function invoked by a call f(...) is the value that the
\* Variable f would yield at that point, from the scope at its resolved
\* depth or else from the global scope; a function of that name declared
\* later in an enclosing block, or bound in a scope of the caller's stack
\* that does not enclose the call, is not invoked instead
C26_CalleeIsTheVariable ==
    \A i \in Invocations :
        /\ log[i].variable.ok
        /\ log[i].value = log[i].variable.value

RECURSIVE ReferencesOfExpr(_)
RECURSIVE ReferencesOfExprs(_)

\* The Variable and Assign nodes of an expression
ReferencesOfExpr(ex) ==
    CASE ex.kind = "Variable" -> {ex}
      [] ex.kind = "Assign" -> {ex} \cup ReferencesOfExpr(ex.value)
      [] ex.kind \in {"Binary", "Logical"} ->
            ReferencesOfExpr(ex.left) \cup ReferencesOfExpr(ex.right)
      [] ex.kind = "Call" -> ReferencesOfExpr(ex.callee) \cup ReferencesOfExprs(ex.args)
      [] ex.kind \in {"Grouping", "Unary"} -> ReferencesOfExpr(ex.ex)
      [] OTHER -> {}

ReferencesOfExprs(exs) ==
    IF exs = <<>> THEN {} ELSE ReferencesOfExpr(Head(exs)) \cup ReferencesOfExprs(Tail(exs))

RECURSIVE ReferencesOfStmt(_)
RECURSIVE ReferencesOfStmts(_)

\* The Variable and Assign nodes of a statement
ReferencesOfStmt(st) ==
    CASE st.kind = "Block" -> ReferencesOfStmts(st.statements)
      [] st.kind \in {"Expression", "Print", "Return"} -> ReferencesOfExpr(st.ex)
      [] st.kind = "Let" -> ReferencesOfExpr(st.initializer)
      [] st.kind = "Function" -> ReferencesOfStmts(st.body)
      [] st.kind = "If" ->
            ReferencesOfExpr(st.condition) \cup ReferencesOfStmt(st.st_then)
                \cup ReferencesOfStmts(st.st_else)
      [] st.kind = "While" -> ReferencesOfExpr(st.condition) \cup ReferencesOfStmt(st.body)
      [] OTHER -> {}

ReferencesOfStmts(stmts) ==
    IF stmts = <<>> THEN {}
    ELSE ReferencesOfStmt(Head(stmts)) \cup ReferencesOfStmts(Tail(stmts))

\* The resolver has walked the statements of the current line
LineResolved == tokens \in SessionInputs /\ pc \in {"check", "interpret", "prompt"}

\* The depth the resolution map holds for a key: <<d>>, or <<>> for none
LookedUp(locals, id) == IF id \in DOMAIN locals THEN <<locals[id]>> ELSE <<>>

=============================================================================
